---- MODULE Spec2Model ----
(***************************************************************************)
(* Storage Accelerator and SSD_Simulator of fuse_ssd_simulator.            *)
(*                                                                         *)
(* Two layers are modelled.  The drive layer is SSD_Simulator: a request   *)
(* queue, one worker (processIO), a storage map and the promises that      *)
(* complete requests.  The accelerator layer is StorageAccelerator with    *)
(* its MetadataManager (namespace, one mutex) and LoadBalancer.            *)
(*                                                                         *)
(* A client thread is idle, or inside one call.  A call that touches a     *)
(* drive goes through enqueueIO (pc "enq": the isQueueFull test, pc        *)
(* "push": the push under queue_mutex_) and then waits on its future (pc   *)
(* "wait").  When the call has returned the thread is at pc "done" with    *)
(* the return value in ret, until it goes back to "idle".                  *)
(***************************************************************************)
EXTENDS Integers, Sequences, FiniteSets, TLC

(***************************************************************************)
(* Bounds of the model.                                                    *)
(***************************************************************************)
NumThreads == 3
MaxTime == 1
MaxOffset == 1
MaxPending == 3

(***************************************************************************)
(* Program constants.  BLOCK_SIZE, MAX_QUEUE_SIZE and MAX_PENDING_OPS are  *)
(* 4096, 1000 and 1000 in the source; the model scales them down so that   *)
(* multi-block calls, a full queue and a hot drive are reachable.          *)
(***************************************************************************)
BLOCK_SIZE == 2
MAX_QUEUE_SIZE == 2
MAX_PENDING_OPS == 2

ENOENT == 2
EIO == 5
EBUSY == 16
EEXIST == 17
ENOTDIR == 20
EISDIR == 21
ENOTEMPTY == 39
ETIMEDOUT == 110

S_IFMT == 61440
S_IFREG == 32768
S_IFDIR == 16384

\* getuid() / getgid() of the process
ProcUid == 7
ProcGid == 7

\* content of a char buffer the caller has not initialised
Uninit == 9

Threads == 1..NumThreads
\* static_cast<size_t>(x), with size_t 16 bits wide
ToSizeT(x) == x % 65536

Min(a, b) == IF a < b THEN a ELSE b

(***************************************************************************)
(* Bit operations on mode_t.                                               *)
(***************************************************************************)
RECURSIVE BitAnd(_, _)
BitAnd(a, b) ==
    IF a = 0 \/ b = 0 THEN 0
    ELSE (a % 2) * (b % 2) + 2 * BitAnd(a \div 2, b \div 2)

RECURSIVE BitOr(_, _)
BitOr(a, b) ==
    IF a = 0 THEN b
    ELSE IF b = 0 THEN a
    ELSE (IF a % 2 = 1 \/ b % 2 = 1 THEN 1 ELSE 0) + 2 * BitOr(a \div 2, b \div 2)

(***************************************************************************)
(* Strings are sequences of one-character strings.                         *)
(***************************************************************************)
Root == <<"/">>
PathA == <<"/", "a">>
PathB == <<"/", "b">>
PathD == <<"/", "d">>
PathDX == <<"/", "d", "/", "x">>

Digits == <<"0", "1", "2", "3", "4", "5", "6", "7", "8", "9">>

\* std::to_string of an integer
RECURSIVE to_string(_)
to_string(n) ==
    IF n < 0 THEN <<"-">> \o to_string(0 - n)
    ELSE IF n < 10 THEN <<Digits[n + 1]>>
    ELSE to_string(n \div 10) \o <<Digits[(n % 10) + 1]>>

\* key.find(prefix) == 0
StartsWith(key, prefix) ==
    /\ Len(key) >= Len(prefix)
    /\ SubSeq(key, 1, Len(prefix)) = prefix

\* the character codes of the characters the model uses
CharCode(c) ==
    CASE c = "/" -> 47
      [] c = "-" -> 45
      [] c = ":" -> 58
      [] c = "a" -> 97
      [] c = "b" -> 98
      [] c = "d" -> 100
      [] c = "s" -> 115
      [] c = "t" -> 116
      [] c = "x" -> 120
      [] OTHER -> 48 + (CHOOSE i \in 0..9 : Digits[i + 1] = c)

(***************************************************************************)
(* XXH64(input, seed): a deterministic keyed hash of the input bytes.      *)
(* xxhash.c is not among the sources; any keyed hash serves (spec 4.1).    *)
(* This one is a 16-bit multiplicative fold.                               *)
(***************************************************************************)
RECURSIVE XXH64(_, _)
XXH64(input, seed) ==
    IF input = <<>> THEN seed
    ELSE XXH64(Tail(input), ((seed * 31) + CharCode(Head(input))) % 65536)

\* HashingModule::HashingModule
HashSeed(seed_str) == XXH64(seed_str, 0)

VARIABLES
    num_drives_,     \* StorageAccelerator::num_drives_
    seed_,           \* HashingModule::seed_
    metadata_map_,   \* MetadataManager::metadata_map_ : path -> FileMetadata
    mutex_,          \* MetadataManager::mutex_ : the thread holding it, or 0
    pending_ops,     \* LoadBalancer::drive_stats_[d].pending_ops
    io_queue_,       \* SSD_Simulator::io_queue_, per drive
    storage_,        \* SSD_Simulator::storage_, per drive : path -> bytes
    cur,             \* the request processIO has popped and not yet executed
    promise,         \* the IOPromise objects alive : id -> [set, value]
    stop_,           \* SSD_Simulator::stop_, per drive
    worker_thread_,  \* per drive: processIO has not returned
    pc,              \* per thread: idle, chunk, enq, push, wait, fin, done
    call,            \* per thread: the frame of the API call in progress
    io,              \* per thread: the drive request it submits or awaits
    buffer,          \* per thread: the char buffer a READ copies into
    ret,             \* per thread: the value the call returned
    now,             \* time(nullptr)
    fault,           \* "none", or what went wrong in the process
    last,            \* per thread: the call that returned last (history)
    logical,         \* path -> the bytes successful writes put there (history)
    prior            \* the createFile that returned last, and the namespace
                     \* before it (history, kept where Init asks for it)

accVars == <<num_drives_, seed_, metadata_map_, mutex_, pending_ops>>
driveVars == <<io_queue_, storage_, cur, promise, stop_, worker_thread_>>
threadVars == <<pc, call, io, buffer, ret>>
histVars == <<last, logical, prior>>
vars == <<accVars, driveVars, threadVars, now, fault, histVars>>

Drives == 0..(num_drives_ - 1)

(***************************************************************************)
(* Records.                                                                *)
(***************************************************************************)
\* struct IORequest; promise 0 is a null shared_ptr, owner 0 no buffer
NoReq ==
    [type |-> "NONE", path |-> <<>>, size |-> 0, offset |-> 0,
     owner |-> 0, base |-> 0, data |-> <<>>, promise |-> 0]

NoIo == [drive |-> 0, req |-> NoReq, timed |-> FALSE]

\* a null std::shared_ptr<FileMetadata>
NullMeta ==
    [mode |-> 0, nlink |-> 0, uid |-> 0, gid |-> 0, size |-> 0,
     atime |-> 0, mtime |-> 0, ctime |-> 0]

NoCall ==
    [op |-> "none", path |-> <<>>, to |-> <<>>, data |-> <<>>, size |-> 0,
     offset |-> 0, total |-> 0, remaining |-> 0, meta |-> NullMeta,
     src |-> 0, dst |-> 0, drive |-> 0, phase |-> "none", mode |-> 0,
     entries |-> <<>>, before |-> <<>>]

\* prior when the last call to return was not a createFile that returned 0,
\* and prior in a specification that does not keep it
NoPrior == [path |-> <<>>, before |-> <<>>]
Untracked == [path |-> <<"untracked">>, before |-> <<>>]

NoLast == [op |-> "none", path |-> <<>>, to |-> <<>>, data |-> <<>>,
           size |-> 0, offset |-> 0, rc |-> 0]

Meta(m) == m # NullMeta

(***************************************************************************)
(* MetadataManager.  m is metadata_map_, a function whose domain is the    *)
(* set of paths present.                                                   *)
(***************************************************************************)
\* MetadataManager::exists
exists(m, path) == path \in DOMAIN m

\* MetadataManager::getMetadata: make_shared of a COPY of the record, or null.
\* What a caller assigns through the returned pointer stays in the copy.
getMetadata(m, path) == IF path \in DOMAIN m THEN m[path] ELSE NullMeta

\* MetadataManager::addMetadata
addMetadata(m, path, metadata) ==
    [p \in DOMAIN m \cup {path} |-> IF p = path THEN metadata ELSE m[p]]

\* MetadataManager::removeMetadata
removeMetadata(m, path) == [p \in DOMAIN m \ {path} |-> m[p]]

\* the first '/' of a string, 0 for npos
FindSlash(s) ==
    IF \E i \in 1..Len(s) : s[i] = "/"
    THEN CHOOSE i \in 1..Len(s) : s[i] = "/" /\ \A j \in 1..(i - 1) : s[j] # "/"
    ELSE 0

\* MetadataManager::listDirectory: the entries, as a set (the vector's order
\* is the unordered_map's iteration order)
listDirectory(m, path) ==
    LET prefix == IF path[Len(path)] # "/" THEN path \o <<"/">> ELSE path
        Component(key) ==
            LET remaining == SubSeq(key, Len(prefix) + 1, Len(key))
                pos == FindSlash(remaining)
            IN  IF pos # 0 THEN SubSeq(remaining, 1, pos - 1) ELSE remaining
    IN  {Component(key) : key \in {k \in DOMAIN m : StartsWith(k, prefix) /\ k # prefix}}
            \ {<<>>}

ListLoop_NoFind(prefix, key, entries) ==
    LET rest == SubSeq(key, Len(prefix) + 1, Len(key))
        pos == FindSlash(rest)
        remaining == IF pos # 0 THEN SubSeq(rest, 1, pos - 1) ELSE rest
    IN  IF StartsWith(key, prefix) /\ key # prefix /\ remaining # <<>>
        THEN Append(entries, remaining) ELSE entries

\* MetadataManager::listDirectory, the body of its loop: entries after key
ListLoop(prefix, key, entries) ==
    LET rest == SubSeq(key, Len(prefix) + 1, Len(key))
        pos == FindSlash(rest)
        remaining == IF pos # 0 THEN SubSeq(rest, 1, pos - 1) ELSE rest
    IN  IF /\ StartsWith(key, prefix) /\ key # prefix
           /\ remaining # <<>>
           /\ \A i \in 1..Len(entries) : entries[i] # remaining
        THEN Append(entries, remaining) ELSE entries

\* MetadataManager::listDirectory as the vector it returns, keys being the
\* order in which the loop meets the keys of the unordered_map
RECURSIVE ListFrom(_, _, _)
ListFrom(prefix, keys, entries) ==
    IF keys = <<>> THEN entries
    ELSE ListFrom(prefix, Tail(keys), ListLoop(prefix, Head(keys), entries))

listDirectoryVector(m, path, keys) ==
    ListFrom(IF path[Len(path)] # "/" THEN path \o <<"/">> ELSE path, keys, <<>>)

\* the orders in which an unordered_map with the keys S can be iterated
RECURSIVE Orders(_)
Orders(S) ==
    IF S = {} THEN {<<>>}
    ELSE UNION {{<<key>> \o rest : rest \in Orders(S \ {key})} : key \in S}

\* MetadataManager::MetadataManager: the root directory
RootMetadata(t) ==
    [mode |-> BitOr(S_IFDIR, 493), nlink |-> 2, uid |-> ProcUid, gid |-> ProcGid,
     size |-> 0, atime |-> t, mtime |-> t, ctime |-> t]

(***************************************************************************)
(* LoadBalancer.  load_balancer.cpp is not among the sources; selectDrive, *)
(* startOperation and recordOperation follow spec 4.4.                     *)
(***************************************************************************)
LBselectDrive(pend, primary) ==
    IF pend[primary] < MAX_PENDING_OPS THEN primary
    ELSE CHOOSE d \in DOMAIN pend :
            /\ \A e \in DOMAIN pend : pend[d] <= pend[e]
            /\ \A e \in DOMAIN pend : pend[e] = pend[d] => d <= e

startOperation(pend, d) == [pend EXCEPT ![d] = @ + 1]

recordOperation(pend, d) == [pend EXCEPT ![d] = IF @ > 0 THEN @ - 1 ELSE 0]

(***************************************************************************)
(* StorageAccelerator routing.                                             *)
(***************************************************************************)
\* HashingModule::hash
hash(input) == XXH64(input, seed_)

\* StorageAccelerator::getDriveIndex
getDriveIndex(path) == hash(path) % num_drives_

\* StorageAccelerator::selectDrive
selectDrive(path) == LBselectDrive(pending_ops, getDriveIndex(path))

\* a key that leaves the offset out
BlockKey_PathOnly(path, off) == path

\* block_key of readFile / writeFile
BlockKey(path, off) == path \o <<":">> \o to_string(off)

(***************************************************************************)
(* SSD_Simulator.                                                          *)
(***************************************************************************)
isQueueFull_Above(q) == Len(q) > MAX_QUEUE_SIZE

\* SSD_Simulator::isQueueFull
isQueueFull(q) == Len(q) >= MAX_QUEUE_SIZE

\* std::vector<char>::resize(n): cut, or grow with zero bytes
Resize(data, n) ==
    IF n <= Len(data) THEN SubSeq(data, 1, n)
    ELSE data \o [i \in 1..(n - Len(data)) |-> 0]

\* memcpy(dst + off, src, Len(src)), dst long enough
Memcpy(dst, off, src) ==
    [i \in 1..Len(dst) |->
        IF i > off /\ i <= off + Len(src) THEN src[i - off] ELSE dst[i]]

\* processIO, case READ: the number of bytes to copy
ReadCount(s, req) ==
    LET available == IF Len(s[req.path]) > ToSizeT(req.offset)
                     THEN Len(s[req.path]) - req.offset ELSE 0
    IN  Min(req.size, available)

\* a copy that starts at the first stored byte
ReadBytes_FromStart(s, req) ==
    IF req.path \in DOMAIN s THEN SubSeq(s[req.path], 1, ReadCount(s, req))
    ELSE <<>>

\* processIO, case READ: the bytes copied to request.buffer
ReadBytes(s, req) ==
    IF req.path \in DOMAIN s
    THEN SubSeq(s[req.path], req.offset + 1, req.offset + ReadCount(s, req))
    ELSE <<>>

\* processIO: the result of a request on storage s
ExecResult(s, req) ==
    CASE req.type = "READ" ->
            IF req.path \in DOMAIN s THEN ReadCount(s, req) ELSE 0 - ENOENT
      [] req.type = "WRITE" -> req.size
      [] req.type = "TRUNCATE" ->
            IF req.path \in DOMAIN s THEN 0 ELSE 0 - ENOENT
      [] OTHER -> 0

WriteStore_AtStart(old, req, data) ==
    Memcpy(IF req.size > Len(old) THEN Resize(old, req.size) ELSE old, 0, data)

\* processIO, case WRITE: storage_[path] after the resize and the memcpy
WriteStore(old, req, data) ==
    Memcpy(IF req.offset + req.size > Len(old)
           THEN Resize(old, req.offset + req.size) ELSE old,
           req.offset, data)

\* processIO: storage s after a request, data being what request.buffer holds
ExecStorage(s, req, data) ==
    CASE req.type = "WRITE" ->
            [p \in DOMAIN s \cup {req.path} |->
                IF p = req.path
                THEN WriteStore(IF p \in DOMAIN s THEN s[p] ELSE <<>>, req, data)
                ELSE s[p]]
      [] req.type = "TRUNCATE" /\ req.path \in DOMAIN s ->
            [s EXCEPT ![req.path] = Resize(@, req.size)]
      [] OTHER -> s

\* thread t is inside the call that made promise id: its future, and the
\* buffers of that call's frames, are alive
Awaiting(t, id) == pc[t] \in {"enq", "push", "wait"} /\ io[t].req.promise = id

\* request.buffer still points to live memory
BufferLive(req) == req.owner # 0 /\ Awaiting(req.owner, req.promise)

\* a drive still holds a copy of the request with promise id
InDrive(q, c, id) ==
    \E d \in DOMAIN q :
        \/ c[d].promise = id
        \/ \E i \in 1..Len(q[d]) : q[d][i].promise = id

\* the last shared_ptr to promise id goes away
Release(pr, id) == [i \in DOMAIN pr \ {id} |-> pr[i]]

\* std::make_shared<IOPromise>(): the lowest id not in use
NewPromise(pr) ==
    CHOOSE i \in 1..(Cardinality(DOMAIN pr) + 1) : i \notin DOMAIN pr

Bytes == {0, 1, 2}

\* what memcpy reads through request.buffer: the bytes of the caller's frame,
\* or, once that frame is gone, whatever the freed memory holds
SourceData(req) ==
    IF req.type # "WRITE" \/ req.size = 0 \/ BufferLive(req) THEN {req.data}
    ELSE [1..req.size -> Bytes]

\* a worker that takes the request pushed last
Pop_Back(d) ==
    /\ worker_thread_[d]
    /\ cur[d] = NoReq
    /\ io_queue_[d] # <<>>
    /\ cur' = [cur EXCEPT ![d] = io_queue_[d][Len(io_queue_[d])]]
    /\ io_queue_' = [io_queue_ EXCEPT ![d] = SubSeq(@, 1, Len(@) - 1)]
    /\ UNCHANGED <<accVars, storage_, promise, stop_, worker_thread_,
                   threadVars, now, fault, histVars>>

\* processIO: the worker of drive d takes the front request
Pop(d) ==
    /\ worker_thread_[d]
    /\ cur[d] = NoReq
    /\ io_queue_[d] # <<>>
    /\ cur' = [cur EXCEPT ![d] = Head(io_queue_[d])]
    /\ io_queue_' = [io_queue_ EXCEPT ![d] = Tail(@)]
    /\ UNCHANGED <<accVars, storage_, promise, stop_, worker_thread_,
                   threadVars, now, fault, histVars>>

\* ~SSD_Simulator, lines 14-18: stop_ is set under queue_mutex_ and the
\* worker is notified
Stop(d) ==
    /\ ~stop_[d]
    /\ stop_' = [stop_ EXCEPT ![d] = TRUE]
    /\ UNCHANGED <<accVars, io_queue_, storage_, cur, promise, worker_thread_,
                   threadVars, now, fault, histVars>>

\* processIO, lines 112-115: the worker finds stop_ set and the queue empty
\* and leaves its loop
Exit(d) ==
    /\ worker_thread_[d]
    /\ cur[d] = NoReq
    /\ stop_[d]
    /\ io_queue_[d] = <<>>
    /\ worker_thread_' = [worker_thread_ EXCEPT ![d] = FALSE]
    /\ UNCHANGED <<accVars, io_queue_, storage_, cur, promise, stop_,
                   threadVars, now, fault, histVars>>

\* a set_value that leaves the shared state as it was
SetValue_Lost(pr, id, v) == pr

\* promise.set_value(v) on the promises pr; a second set_value throws
SetValue(pr, id, v) == [pr EXCEPT ![id] = [set |-> TRUE, value |-> v]]

\* processIO: after the latency, the worker executes the request and
\* completes its promise
Execute(d) ==
    /\ cur[d] # NoReq
    /\ LET req == cur[d]
           result == ExecResult(storage_[d], req)
           copies == req.type = "READ" /\ result > 0
           dangling == /\ ~BufferLive(req)
                       /\ \/ copies
                          \/ req.type = "WRITE" /\ req.size > 0
       IN  /\ \E data \in SourceData(req) :
                storage_' = [storage_ EXCEPT ![d] = ExecStorage(@, req, data)]
           /\ buffer' = IF copies /\ BufferLive(req)
                        THEN [buffer EXCEPT ![req.owner] =
                                 Memcpy(@, req.base, ReadBytes(storage_[d], req))]
                        ELSE buffer
           /\ promise' = IF req.promise = 0 THEN promise
                         ELSE IF \E t \in Threads : Awaiting(t, req.promise)
                         THEN SetValue(promise, req.promise, result)
                         ELSE Release(promise, req.promise)
           /\ fault' = IF req.promise # 0 /\ promise[req.promise].set
                       THEN "terminate"
                       ELSE IF dangling THEN "uaf" ELSE fault
    /\ cur' = [cur EXCEPT ![d] = NoReq]
    /\ UNCHANGED <<accVars, io_queue_, stop_, worker_thread_, pc, call, io, ret,
                   now, histVars>>

(***************************************************************************)
(* Client threads.  A step of a thread is described by an effect: the      *)
(* values it gives to the thread's pc, frame, return value and buffer, to  *)
(* the namespace, its mutex and the load balancer, and the drive request   *)
(* it submits (sub), if any.                                               *)
(***************************************************************************)
Base(t) ==
    [pc |-> pc[t], call |-> call[t], ret |-> ret[t], buf |-> buffer[t],
     map |-> metadata_map_, mutex |-> mutex_, pend |-> pending_ops,
     sub |-> FALSE, handle |-> TRUE, drive |-> 0, req |-> NoReq,
     timed |-> FALSE]

\* the call returns rc; a std::lock_guard the thread holds is released
Done(t, c, rc) ==
    [Base(t) EXCEPT !.pc = "done", !.call = c, !.ret = rc,
                    !.mutex = IF mutex_ = t THEN 0 ELSE mutex_]

\* the thread makes a promise, fills in a request and calls enqueueIO
Submit(e, d, req, timed) ==
    [e EXCEPT !.pc = "enq", !.sub = TRUE, !.drive = d, !.req = req,
              !.timed = timed]

Apply(t, e) ==
    LET old == io[t].req.promise
        pr0 == IF old # 0 /\ old \in DOMAIN promise /\ ~InDrive(io_queue_, cur, old)
               THEN Release(promise, old) ELSE promise
        id  == NewPromise(pr0)
    IN  /\ pc' = [pc EXCEPT ![t] = e.pc]
        /\ call' = [call EXCEPT ![t] = e.call]
        /\ ret' = [ret EXCEPT ![t] = e.ret]
        /\ buffer' = [buffer EXCEPT ![t] = e.buf]
        /\ metadata_map_' = e.map
        /\ mutex_' = e.mutex
        /\ pending_ops' = e.pend
        /\ io' = [io EXCEPT ![t] =
                    IF e.sub
                    THEN [drive |-> e.drive, timed |-> e.timed,
                          req |-> [e.req EXCEPT
                                     !.promise = IF e.handle THEN id ELSE 0]]
                    ELSE NoIo]
        /\ promise' = IF e.sub /\ e.handle
                      THEN [i \in DOMAIN pr0 \cup {id} |->
                               IF i = id THEN [set |-> FALSE, value |-> 0]
                               ELSE pr0[i]]
                      ELSE pr0
        /\ UNCHANGED <<num_drives_, seed_, io_queue_, storage_, cur, stop_,
                       worker_thread_, now, fault, histVars>>

Frame(op, path) == [NoCall EXCEPT !.op = op, !.path = path]

Request(type, path, size, offset) ==
    [NoReq EXCEPT !.type = type, !.path = path, !.size = size, !.offset = offset]

IsReg(metadata) == BitAnd(metadata.mode, S_IFMT) = S_IFREG
IsDir(metadata) == BitAnd(metadata.mode, S_IFMT) = S_IFDIR

\* the FileMetadata createFile / createDirectory build
NewMetadata(adjusted_mode, nlink) ==
    [mode |-> adjusted_mode, nlink |-> nlink, uid |-> ProcUid, gid |-> ProcGid,
     size |-> 0, atime |-> now, mtime |-> now, ctime |-> now]

(***************************************************************************)
(* StorageAccelerator: the operations on the namespace alone.  Each takes  *)
(* the mutex, does its work and releases it: one step.                     *)
(***************************************************************************)
createFileEff_NoExistsTest(t, path, mode) ==
    LET c == [Frame("createFile", path) EXCEPT !.mode = mode]
    IN  [Done(t, c, 0) EXCEPT !.map =
            addMetadata(metadata_map_, path,
                        NewMetadata(BitOr(S_IFREG, BitAnd(mode, 511)), 1))]

createFileEff(t, path, mode) ==
    LET c == [Frame("createFile", path) EXCEPT
                !.mode = mode,
                !.before = IF prior.path = Untracked.path THEN <<>>
                            ELSE metadata_map_]
    IN  IF exists(metadata_map_, path) THEN Done(t, c, 0 - EEXIST)
        ELSE [Done(t, c, 0) EXCEPT !.map =
                addMetadata(metadata_map_, path,
                            NewMetadata(BitOr(S_IFREG, BitAnd(mode, 511)), 1))]

createFile(t, path, mode) ==
    /\ pc[t] = "idle" /\ mutex_ = 0
    /\ Apply(t, createFileEff(t, path, mode))

createDirectoryEff_KeepMode(t, path, mode) ==
    LET c == [Frame("createDirectory", path) EXCEPT !.mode = mode]
    IN  IF exists(metadata_map_, path) THEN Done(t, c, 0 - EEXIST)
        ELSE [Done(t, c, 0) EXCEPT !.map =
                addMetadata(metadata_map_, path,
                            NewMetadata(BitOr(S_IFDIR, mode), 2))]

createDirectoryEff(t, path, mode) ==
    LET c == [Frame("createDirectory", path) EXCEPT !.mode = mode]
    IN  IF exists(metadata_map_, path) THEN Done(t, c, 0 - EEXIST)
        ELSE [Done(t, c, 0) EXCEPT !.map =
                addMetadata(metadata_map_, path,
                            NewMetadata(BitOr(S_IFDIR, BitAnd(mode, 511)), 2))]

createDirectory(t, path, mode) ==
    /\ pc[t] = "idle" /\ mutex_ = 0
    /\ Apply(t, createDirectoryEff(t, path, mode))

removeDirectoryEff(t, path) ==
    LET c == Frame("removeDirectory", path)
        metadata == getMetadata(metadata_map_, path)
    IN  IF ~Meta(metadata) THEN Done(t, c, 0 - ENOENT)
        ELSE IF ~IsDir(metadata) THEN Done(t, c, 0 - ENOTDIR)
        ELSE IF listDirectory(metadata_map_, path) # {} THEN Done(t, c, 0 - ENOTEMPTY)
        ELSE [Done(t, c, 0) EXCEPT !.map = removeMetadata(metadata_map_, path)]

removeDirectory(t, path) ==
    /\ pc[t] = "idle" /\ mutex_ = 0
    /\ Apply(t, removeDirectoryEff(t, path))

\* chmodFile assigns mode and ctime through the pointer getMetadata returned,
\* that is to the copy (kept in the frame as meta); the map is not written
chmodFileEff(t, path, mode) ==
    LET c == [Frame("chmodFile", path) EXCEPT !.mode = mode]
        metadata == getMetadata(metadata_map_, path)
    IN  IF ~Meta(metadata) THEN Done(t, c, 0 - ENOENT)
        ELSE Done(t, [c EXCEPT !.meta =
                        [metadata EXCEPT
                            !.mode = BitOr(BitAnd(metadata.mode, S_IFMT),
                                           BitAnd(mode, 4095)),
                            !.ctime = now]], 0)

chmodFile(t, path, mode) ==
    /\ pc[t] = "idle" /\ mutex_ = 0
    /\ Apply(t, chmodFileEff(t, path, mode))

chownFileEff(t, path, uid, gid) ==
    LET c == Frame("chownFile", path)
        metadata == getMetadata(metadata_map_, path)
    IN  IF ~Meta(metadata) THEN Done(t, c, 0 - ENOENT)
        ELSE Done(t, [c EXCEPT !.meta =
                        [metadata EXCEPT !.uid = uid, !.gid = gid, !.ctime = now]], 0)

chownFile(t, path, uid, gid) ==
    /\ pc[t] = "idle" /\ mutex_ = 0
    /\ Apply(t, chownFileEff(t, path, uid, gid))

utimensFileEff(t, path, a, m) ==
    LET c == Frame("utimensFile", path)
        metadata == getMetadata(metadata_map_, path)
    IN  IF ~Meta(metadata) THEN Done(t, c, 0 - ENOENT)
        ELSE Done(t, [c EXCEPT !.meta =
                        [metadata EXCEPT !.atime = a, !.mtime = m]], 0)

utimensFile(t, path, a, m) ==
    /\ pc[t] = "idle" /\ mutex_ = 0
    /\ Apply(t, utimensFileEff(t, path, a, m))

AssignThrough_Shared(m, path, metadata) ==
    IF path \in DOMAIN m THEN [m EXCEPT ![path] = metadata] ELSE m

\* what an assignment through the pointer getMetadata returned does to the
\* namespace m: the pointee is make_shared<FileMetadata>(it->second), a
\* record of its own, so nothing
AssignThrough(m, path, metadata) == m

\* the caller of getMetadata assigns to the record it was given
ModifyReturned(t) ==
    /\ pc[t] = "done"
    /\ call[t].op = "getMetadata"
    /\ Meta(call[t].meta)
    /\ call[t].meta.size = 0
    /\ LET metadata == [call[t].meta EXCEPT !.size = 1, !.mode = S_IFDIR]
       IN  /\ call' = [call EXCEPT ![t].meta = metadata]
           /\ metadata_map_' = AssignThrough(metadata_map_, call[t].path, metadata)
    /\ UNCHANGED <<num_drives_, seed_, mutex_, pending_ops, driveVars, pc, io,
                   buffer, ret, now, fault, histVars>>

\* StorageAccelerator::getMetadata as an API call: the copy is in meta
getMetadataCall(t, path) ==
    /\ pc[t] = "idle" /\ mutex_ = 0
    /\ Apply(t, Done(t, [Frame("getMetadata", path) EXCEPT
                            !.meta = getMetadata(metadata_map_, path)], 0))

(***************************************************************************)
(* StorageAccelerator: the operations that submit drive requests.          *)
(***************************************************************************)
deleteFileEff_NoTypeTest(t, path) ==
    LET c == Frame("deleteFile", path)
        metadata == getMetadata(metadata_map_, path)
    IN  IF ~Meta(metadata) THEN Done(t, c, 0 - ENOENT)
        ELSE Submit([Base(t) EXCEPT !.call = [c EXCEPT !.meta = metadata],
                                    !.mutex = t],
                    selectDrive(path), Request("DELETE", path, 0, 0), TRUE)

\* a deleteFile that lets go of the mutex before it waits
deleteFileEff_NoLock(t, path) ==
    LET c == Frame("deleteFile", path)
        metadata == getMetadata(metadata_map_, path)
    IN  IF ~Meta(metadata) THEN Done(t, c, 0 - ENOENT)
        ELSE IF ~IsReg(metadata) THEN Done(t, c, 0 - EISDIR)
        ELSE Submit([Base(t) EXCEPT !.call = [c EXCEPT !.meta = metadata]],
                    selectDrive(path), Request("DELETE", path, 0, 0), TRUE)

\* deleteFile up to its enqueueIO: the mutex is taken and kept
deleteFileEff(t, path) ==
    LET c == Frame("deleteFile", path)
        metadata == getMetadata(metadata_map_, path)
    IN  IF ~Meta(metadata) THEN Done(t, c, 0 - ENOENT)
        ELSE IF ~IsReg(metadata) THEN Done(t, c, 0 - EISDIR)
        ELSE Submit([Base(t) EXCEPT !.call = [c EXCEPT !.meta = metadata],
                                    !.mutex = t],
                    selectDrive(path), Request("DELETE", path, 0, 0), TRUE)

deleteFile(t, path) ==
    /\ pc[t] = "idle" /\ mutex_ = 0
    /\ Apply(t, deleteFileEff(t, path))

\* truncateFile up to its enqueueIO
truncateFileEff(t, path, size) ==
    LET c == [Frame("truncateFile", path) EXCEPT !.size = size]
        metadata == getMetadata(metadata_map_, path)
    IN  IF ~Meta(metadata) THEN Done(t, c, 0 - ENOENT)
        ELSE IF ~IsReg(metadata) THEN Done(t, c, 0 - EISDIR)
        ELSE Submit([Base(t) EXCEPT !.call = [c EXCEPT !.meta = metadata],
                                    !.mutex = t],
                    selectDrive(path), Request("TRUNCATE", path, size, 0), TRUE)

truncateFile(t, path, size) ==
    /\ pc[t] = "idle" /\ mutex_ = 0
    /\ Apply(t, truncateFileEff(t, path, size))

\* renameFile: the READ of the migration loop at total_moved
MigrationRead(t, e, c) ==
    LET to_move == Min(c.meta.size - c.total, BLOCK_SIZE)
    IN  Submit([e EXCEPT !.call = [c EXCEPT !.phase = "read"]], c.src,
               [Request("READ", c.path, to_move, c.total) EXCEPT
                    !.owner = t, !.base = 0],
               FALSE)

\* renameFile: the WRITE of what the READ returned
MigrationWrite(t, e, c, bytes_read) ==
    Submit([e EXCEPT !.call = [c EXCEPT !.phase = "write"]], c.dst,
           [Request("WRITE", c.to, bytes_read, c.total) EXCEPT
                !.owner = t, !.data = SubSeq(e.buf, 1, bytes_read)],
           FALSE)

\* renameFile: the DELETE of the source after the loop
MigrationDelete(e, c) ==
    Submit([e EXCEPT !.call = [c EXCEPT !.phase = "delete"]], c.src,
           Request("DELETE", c.path, 0, 0), FALSE)

\* a loop that goes round again whatever has been moved
MigrationNext_Again(t, e, c) == MigrationRead(t, e, c)

\* renameFile: the loop test, then the next READ or the DELETE
MigrationNext(t, e, c) ==
    IF c.total < c.meta.size THEN MigrationRead(t, e, c) ELSE MigrationDelete(e, c)

MoveMetadata_KeepSource(m, from, to, src_metadata) ==
    addMetadata(m, to, src_metadata)

\* renameFile: addMetadata(to, *src_metadata); removeMetadata(from)
MoveMetadata(m, from, to, src_metadata) ==
    removeMetadata(addMetadata(m, to, src_metadata), from)

\* renameFile up to its first enqueueIO, or to its return
renameFileEff(t, from, to) ==
    LET src_metadata == getMetadata(metadata_map_, from)
        c == [Frame("renameFile", from) EXCEPT
                !.to = to, !.meta = src_metadata,
                !.src = selectDrive(from), !.dst = selectDrive(to)]
    IN  IF ~Meta(src_metadata) THEN Done(t, c, 0 - ENOENT)
        ELSE IF exists(metadata_map_, to) THEN Done(t, c, 0 - EEXIST)
        ELSE IF c.src # c.dst /\ IsReg(src_metadata)
        THEN MigrationNext(t, [Base(t) EXCEPT !.mutex = t,
                                           !.buf = [i \in 1..BLOCK_SIZE |-> 0]], c)
        ELSE [Done(t, c, 0) EXCEPT
                !.map = MoveMetadata(metadata_map_, from, to, src_metadata)]

renameFile(t, from, to) ==
    /\ pc[t] = "idle" /\ mutex_ = 0
    /\ Apply(t, renameFileEff(t, from, to))

\* readFile: getMetadata (which takes and releases the mutex), the not-found
\* and EOF tests, and the cap of size
readFileEff(t, path, size, offset) ==
    LET metadata == getMetadata(metadata_map_, path)
        c == [Frame("readFile", path) EXCEPT
                !.size = size, !.offset = offset, !.meta = metadata]
        e == [Base(t) EXCEPT !.buf = [i \in 1..size |-> Uninit]]
    IN  IF ~Meta(metadata) THEN [Done(t, c, 0 - ENOENT) EXCEPT !.buf = e.buf]
        ELSE IF offset >= metadata.size THEN [Done(t, c, 0) EXCEPT !.buf = e.buf]
        ELSE LET remaining == Min(size, ToSizeT(metadata.size - offset))
             IN  [e EXCEPT !.call = [c EXCEPT !.remaining = remaining],
                           !.pc = IF remaining > 0 THEN "chunk" ELSE "fin"]

readFile(t, path, size, offset) ==
    /\ pc[t] = "idle" /\ mutex_ = 0
    /\ Apply(t, readFileEff(t, path, size, offset))

writeFileEff_NoLookup(t, path, data, offset) ==
    LET c == [Frame("writeFile", path) EXCEPT
                !.data = data, !.size = Len(data), !.offset = offset,
                !.remaining = Len(data)]
    IN  [Base(t) EXCEPT !.call = c,
                        !.pc = IF c.remaining > 0 THEN "chunk" ELSE "fin"]

\* writeFile: getMetadata and the not-found test
writeFileEff(t, path, data, offset) ==
    LET metadata == getMetadata(metadata_map_, path)
        c == [Frame("writeFile", path) EXCEPT
                !.data = data, !.size = Len(data), !.offset = offset,
                !.meta = metadata, !.remaining = Len(data)]
    IN  IF ~Meta(metadata) THEN Done(t, c, 0 - ENOENT)
        ELSE [Base(t) EXCEPT !.call = c,
                             !.pc = IF c.remaining > 0 THEN "chunk" ELSE "fin"]

writeFile(t, path, data, offset) ==
    /\ pc[t] = "idle" /\ mutex_ = 0
    /\ Apply(t, writeFileEff(t, path, data, offset))

\* the body of the block loop of readFile / writeFile up to enqueueIO:
\* block_key, selectDrive, startOperation, SSD_Simulator::readFile/writeFile
ChunkEff(t) ==
    LET c == call[t]
        block_size == Min(c.remaining, BLOCK_SIZE)
        at == c.offset + c.total
        primary_drive == getDriveIndex(BlockKey(c.path, at))
        selected_drive == LBselectDrive(pending_ops, primary_drive)
        req == IF c.op = "readFile"
               THEN [Request("READ", c.path, block_size, at) EXCEPT
                        !.owner = t, !.base = c.total]
               ELSE [Request("WRITE", c.path, block_size, at) EXCEPT
                        !.owner = t,
                        !.data = SubSeq(c.data, c.total + 1, c.total + block_size)]
    IN  Submit([Base(t) EXCEPT !.call = [c EXCEPT !.drive = selected_drive],
                               !.pend = startOperation(pending_ops, selected_drive)],
               selected_drive, req, TRUE)

\* pending_ops is never decremented for a block that failed; the model stops
\* at MaxPending
Chunk(t) ==
    /\ pc[t] = "chunk"
    /\ \A d \in Drives : pending_ops[d] < MaxPending
    /\ Apply(t, ChunkEff(t))

(***************************************************************************)
(* SSD_Simulator: the calls of its public interface.                       *)
(***************************************************************************)
SSD_readFile(t, d, path, size, offset) ==
    /\ pc[t] = "idle"
    /\ Apply(t, Submit([Base(t) EXCEPT
                            !.call = [Frame("SSD_readFile", path) EXCEPT
                                        !.size = size, !.offset = offset, !.drive = d],
                            !.buf = [i \in 1..size |-> Uninit]],
                       d, [Request("READ", path, size, offset) EXCEPT !.owner = t],
                       TRUE))

SSD_writeFile(t, d, path, data, offset) ==
    /\ pc[t] = "idle"
    /\ Apply(t, Submit([Base(t) EXCEPT
                            !.call = [Frame("SSD_writeFile", path) EXCEPT
                                        !.data = data, !.size = Len(data),
                                        !.offset = offset, !.drive = d]],
                       d, [Request("WRITE", path, Len(data), offset) EXCEPT
                              !.owner = t, !.data = data],
                       TRUE))

\* SSD_Simulator::truncate waits with future.wait(): no deadline
SSD_truncate(t, d, path, size) ==
    /\ pc[t] = "idle"
    /\ Apply(t, Submit([Base(t) EXCEPT
                            !.call = [Frame("SSD_truncate", path) EXCEPT
                                        !.size = size, !.drive = d]],
                       d, Request("TRUNCATE", path, size, 0), FALSE))

\* a client calls enqueueIO itself with a request that has no buffer; with a
\* handle it then waits on the future, without one it goes on at once
enqueueIO(t, d, type, path, handle) ==
    /\ pc[t] = "idle"
    /\ Apply(t, [Submit([Base(t) EXCEPT
                            !.call = [Frame("enqueueIO", path) EXCEPT !.drive = d]],
                        d, Request(type, path, 0, 0), FALSE)
                 EXCEPT !.handle = handle])

\* where the caller of enqueueIO goes on
AfterEnqueue(t) == IF io[t].req.promise = 0 THEN "done" ELSE "wait"

\* enqueueIO, lines 26-32: the isQueueFull test and the busy completion
EnqCheck(t) ==
    /\ pc[t] = "enq"
    /\ LET id == io[t].req.promise
           full == isQueueFull(io_queue_[io[t].drive])
       IN  /\ promise' = IF full /\ id # 0
                         THEN SetValue(promise, id, 0 - EBUSY) ELSE promise
           /\ pc' = [pc EXCEPT ![t] = IF full THEN AfterEnqueue(t) ELSE "push"]
    /\ UNCHANGED <<accVars, io_queue_, storage_, cur, stop_, worker_thread_,
                   call, io, buffer, ret,
                   now, fault, histVars>>

\* enqueueIO, lines 34-38: the push under queue_mutex_
EnqPush(t) ==
    /\ pc[t] = "push"
    /\ io_queue_' = [io_queue_ EXCEPT ![io[t].drive] = Append(@, io[t].req)]
    /\ pc' = [pc EXCEPT ![t] = AfterEnqueue(t)]
    /\ UNCHANGED <<accVars, storage_, cur, promise, stop_, worker_thread_,
                   call, io, buffer, ret,
                   now, fault, histVars>>

(***************************************************************************)
(* What a call does when its wait ends with result r, or at the deadline.  *)
(***************************************************************************)
\* readFile / writeFile after SSD_Simulator::readFile/writeFile returned
BlockLoopEff(t, bytes) ==
    LET c == call[t]
        c2 == [c EXCEPT !.total = @ + bytes, !.remaining = @ - bytes]
    IN  IF bytes < 0 THEN Done(t, c, bytes)
        ELSE [Base(t) EXCEPT
                !.call = c2,
                !.pend = recordOperation(pending_ops, c.drive),
                !.pc = IF c2.remaining > 0 THEN "chunk" ELSE "fin"]

deleteFileEnd_KeepRecord(t, timedout) ==
    IF timedout THEN Done(t, call[t], 0 - ETIMEDOUT) ELSE Done(t, call[t], 0)

\* a deleteFile that removes the record at the deadline too
deleteFileEnd_RemoveAtDeadline(t, timedout) ==
    [Done(t, call[t], IF timedout THEN 0 - ETIMEDOUT ELSE 0) EXCEPT
        !.map = removeMetadata(metadata_map_, call[t].path)]

\* deleteFile after the wait: the result of the DELETE is not looked at
deleteFileEnd(t, timedout) ==
    IF timedout THEN Done(t, call[t], 0 - ETIMEDOUT)
    ELSE [Done(t, call[t], 0) EXCEPT
            !.map = removeMetadata(metadata_map_, call[t].path)]

\* truncateFile after the wait: size and times go to the copy
truncateFileEnd(t, result, timedout) ==
    LET c == call[t]
    IN  IF timedout THEN Done(t, c, 0 - ETIMEDOUT)
        ELSE IF result < 0 THEN Done(t, c, result)
        ELSE Done(t, [c EXCEPT !.meta = [c.meta EXCEPT
                        !.size = c.size, !.mtime = now, !.ctime = now]], 0)

\* renameFile after one of its waits
renameFileStep(t, result) ==
    LET c == call[t]
    IN  CASE c.phase = "read" ->
                IF result < 0 THEN Done(t, c, 0 - EIO)
                ELSE MigrationWrite(t, Base(t), c, result)
          [] c.phase = "write" ->
                IF result < 0 THEN Done(t, c, 0 - EIO)
                ELSE MigrationNext(t, Base(t), [c EXCEPT !.total = @ + result])
          [] OTHER ->
                [Done(t, c, 0) EXCEPT
                    !.map = MoveMetadata(metadata_map_, c.path, c.to, c.meta)]

Continue(t, result, timedout) ==
    LET op == call[t].op
    IN  CASE op = "deleteFile" -> deleteFileEnd(t, timedout)
          [] op = "truncateFile" -> truncateFileEnd(t, result, timedout)
          [] op = "renameFile" -> renameFileStep(t, result)
          [] op \in {"readFile", "writeFile"} -> BlockLoopEff(t, result)
          [] op = "SSD_truncate" -> Done(t, call[t], 0)
          [] OTHER -> Done(t, call[t], result)

\* future.get() / a wait that finds the promise completed
WaitReady(t) ==
    /\ pc[t] = "wait"
    /\ promise[io[t].req.promise].set
    /\ Apply(t, Continue(t, promise[io[t].req.promise].value, FALSE))

\* future.wait_for(5 s) returns timeout
WaitTimeout(t) ==
    /\ pc[t] = "wait"
    /\ io[t].timed
    /\ ~promise[io[t].req.promise].set
    /\ Apply(t, Continue(t, 0 - ETIMEDOUT, TRUE))

\* an update after the loop that reaches the record in the namespace
FinEff_Stored(t) ==
    LET c == call[t]
        metadata == getMetadata(metadata_map_, c.path)
        size == IF c.offset + c.total > metadata.size
                THEN c.offset + c.total ELSE metadata.size
    IN  IF ~Meta(metadata) \/ c.op = "readFile" THEN Done(t, c, c.total)
        ELSE [Done(t, c, c.total) EXCEPT
                !.map = addMetadata(metadata_map_, c.path,
                                    [metadata EXCEPT !.size = size])]

\* readFile / writeFile after the loop: the mutex is taken again, the times
\* and the size are assigned to a new copy of the record
FinEff(t) ==
    LET c == call[t]
        metadata == getMetadata(metadata_map_, c.path)
        updated ==
            IF ~Meta(metadata) THEN metadata
            ELSE IF c.op = "readFile" THEN [metadata EXCEPT !.atime = now]
            ELSE [metadata EXCEPT
                    !.mtime = now,
                    !.size = IF c.offset + c.total > metadata.size
                             THEN c.offset + c.total ELSE @]
    IN  Done(t, [c EXCEPT !.meta = updated], c.total)

Fin(t) ==
    /\ pc[t] = "fin" /\ mutex_ = 0
    /\ Apply(t, FinEff(t))

(***************************************************************************)
(* History: what the call that returns leaves in last and logical.         *)
(* logical[P] is the content the calls that succeeded gave the regular     *)
(* file P: empty at createFile, the written bytes laid over it (gaps       *)
(* zero) at each writeFile that returned a count, moved by renameFile,     *)
(* resized by truncateFile, dropped by deleteFile.                         *)
(***************************************************************************)
Overlay(old, offset, data) ==
    Memcpy(IF offset + Len(data) > Len(old) THEN Resize(old, offset + Len(data))
           ELSE old, offset, data)

LogicalAfter(lg, c, rc) ==
    CASE c.op = "createFile" /\ rc = 0 ->
            [p \in DOMAIN lg \cup {c.path} |-> IF p = c.path THEN <<>> ELSE lg[p]]
      [] c.op = "writeFile" /\ rc > 0 /\ c.path \in DOMAIN lg ->
            [lg EXCEPT ![c.path] = Overlay(@, c.offset, SubSeq(c.data, 1, rc))]
      [] c.op = "truncateFile" /\ rc = 0 /\ c.path \in DOMAIN lg ->
            [lg EXCEPT ![c.path] = Resize(@, c.size)]
      [] c.op = "deleteFile" /\ rc = 0 ->
            [p \in DOMAIN lg \ {c.path} |-> lg[p]]
      [] c.op = "renameFile" /\ rc = 0 /\ c.path \in DOMAIN lg ->
            [p \in (DOMAIN lg \ {c.path}) \cup {c.to} |->
                IF p = c.to THEN lg[c.path] ELSE lg[p]]
      [] OTHER -> lg

Summary(c, rc) ==
    [op |-> c.op, path |-> c.path, to |-> c.to, data |-> c.data,
     size |-> c.size, offset |-> c.offset, rc |-> rc]

\* the calls last remembers: a writeFile that returned a count, a renameFile
\* that returned 0
Noted(c, rc) ==
    \/ c.op = "writeFile" /\ rc > 0
    \/ c.op = "renameFile" /\ rc = 0

\* the caller takes the return value and is free for its next call
Return(t) ==
    /\ pc[t] = "done"
    /\ pc' = [pc EXCEPT ![t] = "idle"]
    /\ call' = [call EXCEPT ![t] = NoCall]
    /\ io' = [io EXCEPT ![t] = NoIo]
    /\ buffer' = [buffer EXCEPT ![t] = <<>>]
    /\ ret' = [ret EXCEPT ![t] = 0]
    /\ last' = [last EXCEPT ![t] = IF Noted(call[t], ret[t])
                                   THEN Summary(call[t], ret[t]) ELSE NoLast]
    /\ logical' = LogicalAfter(logical, call[t], ret[t])
    /\ prior' = IF prior.path = Untracked.path THEN prior
                ELSE IF call[t].op = "createFile" /\ ret[t] = 0
                THEN [path |-> call[t].path, before |-> call[t].before]
                ELSE NoPrior
    /\ UNCHANGED <<accVars, driveVars, now, fault>>

\* a second passes
Tick ==
    /\ now < MaxTime
    /\ now' = now + 1
    /\ UNCHANGED <<accVars, driveVars, threadVars, fault, histVars>>

(***************************************************************************)
(* StorageAccelerator::StorageAccelerator(num_drives, hash_seed) and the   *)
(* constructors it runs.                                                   *)
(***************************************************************************)
Constructed(n, hash_seed) ==
    /\ num_drives_ = n
    /\ seed_ = HashSeed(hash_seed)
    /\ metadata_map_ = [p \in {Root} |-> RootMetadata(0)]
    /\ mutex_ = 0
    /\ pending_ops = [d \in 0..(n - 1) |-> 0]
    /\ io_queue_ = [d \in 0..(n - 1) |-> <<>>]
    /\ storage_ = [d \in 0..(n - 1) |-> [p \in {} |-> <<>>]]
    /\ cur = [d \in 0..(n - 1) |-> NoReq]
    /\ promise = [i \in {} |-> [set |-> FALSE, value |-> 0]]
    /\ stop_ = [d \in 0..(n - 1) |-> FALSE]
    /\ worker_thread_ = [d \in 0..(n - 1) |-> TRUE]
    /\ pc = [t \in Threads |-> "idle"]
    /\ call = [t \in Threads |-> NoCall]
    /\ io = [t \in Threads |-> NoIo]
    /\ buffer = [t \in Threads |-> <<>>]
    /\ ret = [t \in Threads |-> 0]
    /\ now = 0
    /\ fault = "none"
    /\ last = [t \in Threads |-> NoLast]
    /\ logical = [p \in {} |-> <<>>]

InitWith(n, hash_seed) == Constructed(n, hash_seed) /\ prior = Untracked

\* the steps of the drives' workers
Worker == \E d \in Drives : Pop(d) \/ Execute(d)

(***************************************************************************)
(* Spec: one client of the accelerator, drives that answer within the      *)
(* deadline.  The client writes to /a and reads, renames, deletes and      *)
(* changes both files.                                                     *)
(***************************************************************************)
Files == {PathA, PathB}
WriteData == {<<2, 1, 2>>}
ReadSizes == {1, 3}

Init == \E n \in {1, 2} : InitWith(n, <<"s">>)

Calls(t) ==
    \/ \E p \in Files : createFile(t, p, 420)
    \/ \E p \in Files : deleteFile(t, p)
    \/ \E p \in Files : removeDirectory(t, p)
    \/ \E p \in Files, q \in Files : renameFile(t, p, q)
    \/ \E p \in Files : chmodFile(t, p, 384)
    \/ \E p \in Files : chownFile(t, p, 0, 0)
    \/ \E p \in Files : utimensFile(t, p, 0, 0)
    \/ \E p \in Files : truncateFile(t, p, 1)
    \/ \E p \in Files, n \in ReadSizes, o \in 0..MaxOffset : readFile(t, p, n, o)
    \/ \E b \in WriteData, o \in 0..MaxOffset : writeFile(t, PathA, b, o)

Timely(t) ==
    \/ Chunk(t)
    \/ EnqCheck(t)
    \/ EnqPush(t)
    \/ WaitReady(t)
    \/ Fin(t)
    \/ Return(t)

Next == Calls(1) \/ Timely(1) \/ Worker

Spec == Init /\ [][Next]_vars

(***************************************************************************)
(* Claims checked under Spec.                                              *)
(***************************************************************************)
Max(a, b) == IF a > b THEN a ELSE b

\* thread t has just returned from a readFile that directly followed its own
\* writeFile(P, b, s, o) = s, s > 0, with the same P, s and o
ReadBackDone(t) ==
    /\ pc[t] = "done"
    /\ call[t].op = "readFile"
    /\ last[t].op = "writeFile"
    /\ last[t].rc = last[t].size
    /\ last[t].size > 0
    /\ call[t].path = last[t].path
    /\ call[t].size = last[t].size
    /\ call[t].offset = last[t].offset

\* C1: a readFile(P, buf, s, o) issued right after a writeFile(P, b, s, o)
\* that returned s > 0 returns s, and buf holds b on all s bytes.
C1_WriteReadRoundTrip ==
    \A t \in Threads :
        ReadBackDone(t) =>
            /\ ret[t] = call[t].size
            /\ SubSeq(buffer[t], 1, call[t].size) = last[t].data

\* thread t has just returned from a writeFile that wrote all its s > 0 bytes
WriteDone(t) ==
    /\ pc[t] = "done"
    /\ call[t].op = "writeFile"
    /\ call[t].size > 0
    /\ ret[t] = call[t].size

\* C2: the size in the namespace of each regular file is the highest
\* offset + bytes written to it since it was created or truncated; after
\* writeFile(P, b, s, o) returns s the size is max(size before, o + s).
C2_SizeInvariant ==
    /\ \A t \in Threads :
          WriteDone(t) /\ call[t].path \in DOMAIN metadata_map_ =>
              metadata_map_[call[t].path].size =
                  Max(call[t].meta.size, call[t].offset + ret[t])
    /\ \A p \in DOMAIN metadata_map_ \cap DOMAIN logical :
          (\A t \in Threads : pc[t] = "idle") =>
              metadata_map_[p].size = Len(logical[p])

\* thread t has just returned from readFile(b, buf, L, 0) issued right after
\* its renameFile(a, b) = 0, L > 0 being the length of what was written to a
ReadRenamedDone(t) ==
    /\ pc[t] = "done"
    /\ call[t].op = "readFile"
    /\ last[t].op = "renameFile"
    /\ last[t].rc = 0
    /\ call[t].path = last[t].to
    /\ call[t].offset = 0
    /\ call[t].path \in DOMAIN logical
    /\ call[t].size = Len(logical[call[t].path])

\* C3: after renameFile(a, b) returned 0, a being a regular file of length L
\* written with writeFile, readFile(b, buf, L, 0) returns L and buf holds
\* the content a had before the rename.
C3_RenamePreservesContent ==
    \A t \in Threads :
        ReadRenamedDone(t) =>
            /\ ret[t] = call[t].size
            /\ SubSeq(buffer[t], 1, call[t].size) = logical[call[t].path]

\* the operations C5 names
NotFoundOps ==
    {"deleteFile", "removeDirectory", "renameFile", "chmodFile", "chownFile",
     "truncateFile", "utimensFile", "readFile", "writeFile"}

\* some drive stores bytes under path
Residual(path) ==
    \E d \in Drives : path \in DOMAIN storage_[d] /\ storage_[d][path] # <<>>

\* C5: each of deleteFile, removeDirectory, renameFile (P the source),
\* chmodFile, chownFile, truncateFile, utimensFile, readFile and writeFile on
\* a path P absent from the namespace returns -ENOENT in its first step,
\* submits no request and leaves the namespace, the load balancer and all
\* drives unchanged, whatever the drives store under P.
C5_NotFound ==
    [][\A t \in Threads :
          (/\ pc[t] = "idle"
           /\ pc'[t] # "idle"
           /\ call'[t].op \in NotFoundOps
           /\ call'[t].path \notin DOMAIN metadata_map_)
          => (/\ pc'[t] = "done"
              /\ ret'[t] = 0 - ENOENT
              /\ io'[t] = NoIo
              /\ metadata_map_' = metadata_map_
              /\ mutex_' = mutex_
              /\ pending_ops' = pending_ops
              /\ driveVars' = driveVars)]_vars

\* a not-found return of writeFile on a path whose bytes a drive still stores
C5_Witness ==
    \E t \in Threads :
        /\ pc[t] = "done"
        /\ call[t].op = "writeFile"
        /\ ret[t] = 0 - ENOENT
        /\ call[t].path \notin DOMAIN metadata_map_
        /\ Residual(call[t].path)

(***************************************************************************)
(* SpecNs: one client working on the namespace, the root included, while   *)
(* time passes.                                                            *)
(***************************************************************************)
NsPaths == {Root, PathA, PathB, PathD}

NsCalls(t) ==
    \/ \E p \in {PathA, PathDX} : createFile(t, p, 420)
    \/ createDirectory(t, PathD, 493)
    \/ \E p \in {Root, PathA, PathD} : removeDirectory(t, p)
    \/ \E p \in NsPaths, q \in NsPaths : renameFile(t, p, q)
    \/ \E p \in {Root, PathA} : deleteFile(t, p)
    \/ \E p \in {Root, PathA} : chmodFile(t, p, 384)
    \/ getMetadataCall(t, Root)

NsSteps(t) ==
    \/ EnqCheck(t)
    \/ EnqPush(t)
    \/ WaitReady(t)
    \/ Return(t)

NextNs == NsCalls(1) \/ NsSteps(1) \/ Worker \/ Tick

SpecNs == Init /\ [][NextNs]_vars

\* C4: whatever operations ran, on "/" itself too, the namespace contains
\* "/" and getMetadata("/") is a directory record with nlink >= 2.
C4_RootInvariant ==
    /\ exists(metadata_map_, Root)
    /\ IsDir(getMetadata(metadata_map_, Root))
    /\ getMetadata(metadata_map_, Root).nlink >= 2

\* C10: the step in which renameFile(from, to) returns 0 removes from, puts
\* at to the record from had (mode, nlink, uid, gid, size, times) and
\* leaves every other entry of the namespace as it was.
C10_RenameMovesRecord ==
    [][\A t \in Threads :
          (/\ pc[t] # "done"
           /\ pc'[t] = "done"
           /\ call'[t].op = "renameFile"
           /\ ret'[t] = 0)
          => LET from == call'[t].path
                 to == call'[t].to
             IN  /\ from \in DOMAIN metadata_map_
                 /\ to \notin DOMAIN metadata_map_
                 /\ from \notin DOMAIN metadata_map_'
                 /\ to \in DOMAIN metadata_map_'
                 /\ metadata_map_'[to] = metadata_map_[from]
                 /\ DOMAIN metadata_map_' =
                        (DOMAIN metadata_map_ \ {from}) \cup {to}
                 /\ \A p \in DOMAIN metadata_map_ \ {from} :
                        metadata_map_'[p] = metadata_map_[p]]_vars

\* renameFile returned 0 after a migration between two drives, and the
\* namespace holds records that differ from the one moved
C10_Witness ==
    \E t \in Threads :
        /\ pc[t] = "done"
        /\ call[t].op = "renameFile"
        /\ ret[t] = 0
        /\ call[t].src # call[t].dst
        /\ call[t].phase = "delete"
        /\ call[t].to \in DOMAIN metadata_map_
        /\ \E p \in DOMAIN metadata_map_ :
              /\ p # Root
              /\ IsReg(metadata_map_[p])
              /\ metadata_map_[p] # metadata_map_[call[t].to]

(***************************************************************************)
(* SpecRace: thread 1 creates /a and writes to it while thread 2 deletes,  *)
(* renames and truncates /a.                                               *)
(***************************************************************************)
NextRace ==
    \/ createFile(1, PathA, 420)
    \/ writeFile(1, PathA, <<2, 1, 2>>, 0)
    \/ deleteFile(2, PathA)
    \/ renameFile(2, PathA, PathB)
    \/ truncateFile(2, PathA, 1)
    \/ \E t \in {1, 2} : Timely(t)
    \/ Worker

SpecRace == Init /\ [][NextRace]_vars

\* thread t is between the existence check of readFile / writeFile and the
\* return
InBlockLoop(t) ==
    /\ call[t].op \in {"readFile", "writeFile"}
    /\ pc[t] \in {"chunk", "enq", "push", "wait", "fin"}

\* C6: readFile and writeFile hold the namespace mutex from the existence
\* check through the block loop to the final update, so no deleteFile,
\* renameFile or truncateFile takes effect in between, and a writeFile that
\* returns a positive count names a path that is in the namespace then.
C6_WriteFileAtomic ==
    \A t \in Threads :
        /\ InBlockLoop(t) => mutex_ = t
        /\ (pc[t] = "done" /\ call[t].op = "writeFile" /\ ret[t] > 0)
              => exists(metadata_map_, call[t].path)

\* the consequence alone: a positive count and the path not in the namespace
C6_PositiveCountOnAbsentPath ==
    \E t \in Threads :
        /\ pc[t] = "done"
        /\ call[t].op = "writeFile"
        /\ ret[t] > 0
        /\ ~exists(metadata_map_, call[t].path)

(***************************************************************************)
(* SpecConc: every thread creates its own file and writes to it.           *)
(***************************************************************************)
Own(t) == <<"/">> \o to_string(t)

\* what thread t writes: more than a block, and not what another thread writes
OwnData(t) == <<t, t + 1, t>>

NextConc ==
    \/ \E t \in Threads : createFile(t, Own(t), 420)
    \/ \E t \in Threads : writeFile(t, Own(t), OwnData(t), 0)
    \/ \E t \in Threads : Timely(t)
    \/ Worker

SpecConc == Init /\ [][NextConc]_vars

\* the blocks writeFile cuts data into when it writes it at offset: the
\* offsets, relative to the start of data, at which a block begins
BlockStarts(data) == {i \in 0..(Len(data) - 1) : i % BLOCK_SIZE = 0}

\* some drive stores under path, at offset + i, the block of data that
\* begins at i
BlockStored(path, offset, data, i) ==
    LET n == Min(BLOCK_SIZE, Len(data) - i)
    IN  \E d \in Drives :
            /\ path \in DOMAIN storage_[d]
            /\ Len(storage_[d][path]) >= offset + i + n
            /\ SubSeq(storage_[d][path], offset + i + 1, offset + i + n) =
                   SubSeq(data, i + 1, i + n)

\* every thread is between calls and the drives have nothing left to do
Quiet ==
    /\ \A t \in Threads : pc[t] = "idle"
    /\ \A d \in Drives : io_queue_[d] = <<>> /\ cur[d] = NoReq

\* what the last fully returned writeFile of each thread wrote is stored
OwnBytesStored ==
    Quiet =>
        \A t \in Threads :
            (last[t].op = "writeFile" /\ last[t].rc = last[t].size) =>
                \A i \in BlockStarts(last[t].data) :
                    BlockStored(last[t].path, last[t].offset, last[t].data, i)

\* thread t has just returned from a writeFile to its own, existing file
OwnWriteDone(t) ==
    /\ pc[t] = "done"
    /\ call[t].op = "writeFile"
    /\ call[t].path = Own(t)
    /\ Meta(call[t].meta)

InitDrive == InitWith(1, <<"s">>)

DriveCalls(t) ==
    \/ SSD_writeFile(t, 0, PathA, <<2, 1>>, 0)
    \/ \E n \in {1, 2} : SSD_readFile(t, 0, PathA, n, 0)
    \/ SSD_truncate(t, 0, PathA, 1)
    \/ \E type \in {"TRUNCATE", "DELETE"}, handle \in BOOLEAN :
          enqueueIO(t, 0, type, PathA, handle)

DriveSteps(t) ==
    \/ EnqCheck(t)
    \/ EnqPush(t)
    \/ WaitReady(t)
    \/ WaitTimeout(t)
    \/ Return(t)

NextDrive == DriveCalls(1) \/ DriveSteps(1) \/ Worker

SpecDrive == InitDrive /\ [][NextDrive]_vars

\* C8: enqueueIO on a drive whose queue holds MAX_QUEUE_SIZE requests does
\* not add the request, completes its handle, if it has one, with -EBUSY at
\* once, does not block the submitter and leaves the queue as it was.
C8_QueueFull ==
    [][\A t \in Threads :
          (/\ pc[t] = "enq"
           /\ pc'[t] # "enq"
           /\ Len(io_queue_[io[t].drive]) >= MAX_QUEUE_SIZE)
          => LET id == io[t].req.promise
             IN  /\ io_queue_' = io_queue_
                 /\ cur' = cur
                 /\ storage_' = storage_
                 /\ IF id = 0 THEN pc'[t] = "done" /\ promise' = promise
                    ELSE /\ pc'[t] = "wait"
                         /\ promise'[id] = [set |-> TRUE, value |-> 0 - EBUSY]]_vars

\* a call with a handle came back busy from a queue that is still full
C8_Witness ==
    \E t \in Threads :
        /\ pc[t] = "done"
        /\ call[t].op = "SSD_writeFile"
        /\ ret[t] = 0 - EBUSY
        /\ Len(io_queue_[call[t].drive]) = MAX_QUEUE_SIZE

\* C9: after a wait expired the abandoned request is executed by the worker
\* and fulfilling its handle is harmless: no crash, no double completion,
\* nothing a later operation can observe.
C9_StaleHandleHarmless == fault = "none"

(***************************************************************************)
(* SpecDir: one client working on files and directories: /a, /d, the       *)
(* entries /d/x and /d//x under /d, and /b as the target of a rename.     *)
(* The drives answer within the deadline.                                  *)
(***************************************************************************)
PathDSlash == <<"/", "d", "/">>
PathDSlashX == <<"/", "d", "/", "/", "x">>

\* StorageAccelerator::listDirectory: the vector it returns is in entries
listDirectoryCall(t, path) ==
    /\ pc[t] = "idle" /\ mutex_ = 0
    /\ \E keys \in Orders(DOMAIN metadata_map_) :
          Apply(t, Done(t, [Frame("listDirectory", path) EXCEPT
                              !.entries = listDirectoryVector(metadata_map_, path, keys)],
                        0))

FileModes == {420, 18925}
DirModes == {493, 33279}

DirCalls(t) ==
    \/ \E m \in FileModes : createFile(t, PathA, m)
    \/ \E p \in {PathD, PathDX, PathDSlashX} : createFile(t, p, 420)
    \/ \E m \in DirModes : createDirectory(t, PathD, m)
    \/ createDirectory(t, PathA, 493)
    \/ \E p \in {PathA, PathD} : removeDirectory(t, p)
    \/ \E p \in {PathA, PathD, PathDX, PathDSlashX} : deleteFile(t, p)
    \/ \E p \in {PathA, PathD} : truncateFile(t, p, 1)
    \/ \E p \in {PathA, PathB, PathD}, q \in {PathA, PathB, PathD} :
          renameFile(t, p, q)
    \/ \E p \in {PathA, PathD} : chmodFile(t, p, 16768)

DirSteps(t) ==
    \/ EnqCheck(t)
    \/ EnqPush(t)
    \/ WaitReady(t)
    \/ Return(t)

NextDir == DirCalls(1) \/ DirSteps(1) \/ Worker

\* the history of createFile is kept
InitDir == \E n \in {1, 2} : Constructed(n, <<"s">>) /\ prior = NoPrior

SpecDir == InitDir /\ [][NextDir]_vars

\* key has path followed by '/' as a strict prefix
StrictlyUnder(key, path) ==
    /\ Len(key) > Len(path) + 1
    /\ SubSeq(key, 1, Len(path) + 1) = path \o <<"/">>

\* some entry of the namespace m other than path is strictly under path
Occupied(m, path) == \E key \in DOMAIN m \ {path} : StrictlyUnder(key, path)

\* C12: removeDirectory(P) removes P only if no other entry of the namespace
\* has P followed by '/' as a strict prefix; when such an entry exists (P a
\* directory) it returns -ENOTEMPTY and changes nothing; when none exists it
\* returns 0, as after createDirectory(D); createFile(D/x); deleteFile(D/x).
C12_RemoveOnlyWhenEmpty ==
    [][\A t \in Threads :
          (/\ pc[t] = "idle"
           /\ pc'[t] = "done"
           /\ call'[t].op = "removeDirectory")
          => LET P == call'[t].path
                 directory == /\ P \in DOMAIN metadata_map_
                              /\ IsDir(metadata_map_[P])
             IN  /\ P \notin DOMAIN metadata_map_' /\ P \in DOMAIN metadata_map_
                        => ~Occupied(metadata_map_, P)
                 /\ directory /\ Occupied(metadata_map_, P)
                        => /\ ret'[t] = 0 - ENOTEMPTY
                           /\ metadata_map_' = metadata_map_
                 /\ directory /\ ~Occupied(metadata_map_, P)
                        => /\ ret'[t] = 0
                           /\ metadata_map_' = removeMetadata(metadata_map_, P)]_vars

\* C13: deleteFile on a directory returns -EISDIR, truncateFile on a
\* directory returns -EISDIR and removeDirectory on a regular file returns
\* -ENOTDIR, each in its first step; no drive request is submitted and the
\* namespace, the load balancer and the drives are unchanged.
C13_TypeErrors ==
    [][\A t \in Threads :
          LET op == call'[t].op
              P == call'[t].path
          IN  (/\ pc[t] = "idle"
               /\ pc'[t] # "idle"
               /\ P \in DOMAIN metadata_map_
               /\ \/ op \in {"deleteFile", "truncateFile"}
                        /\ BitAnd(metadata_map_[P].mode, S_IFMT) = S_IFDIR
                  \/ op = "removeDirectory"
                        /\ BitAnd(metadata_map_[P].mode, S_IFMT) = S_IFREG)
              => (/\ pc'[t] = "done"
                  /\ ret'[t] = IF op = "removeDirectory"
                               THEN 0 - ENOTDIR ELSE 0 - EISDIR
                  /\ io'[t] = NoIo
                  /\ metadata_map_' = metadata_map_
                  /\ mutex_' = mutex_
                  /\ pending_ops' = pending_ops
                  /\ driveVars' = driveVars)]_vars

\* deleteFile has returned -EISDIR on a directory that has an entry under it
C13_Witness ==
    \E t \in Threads :
        /\ pc[t] = "done"
        /\ call[t].op = "deleteFile"
        /\ ret[t] = 0 - EISDIR
        /\ call[t].path \in DOMAIN metadata_map_
        /\ BitAnd(metadata_map_[call[t].path].mode, S_IFMT) = S_IFDIR
        /\ Occupied(metadata_map_, call[t].path)

\* the first step of createFile(P), createDirectory(P) or renameFile(from, P)
\* by thread t, P being in the namespace
OnExisting(t) ==
    /\ pc[t] = "idle"
    /\ pc'[t] # "idle"
    /\ \/ /\ call'[t].op \in {"createFile", "createDirectory"}
          /\ call'[t].path \in DOMAIN metadata_map_
       \/ /\ call'[t].op = "renameFile"
          /\ call'[t].to \in DOMAIN metadata_map_

\* the step returns -EEXIST and leaves the namespace as it was
RefusedAsExisting(t) ==
    /\ pc'[t] = "done"
    /\ ret'[t] = 0 - EEXIST
    /\ io'[t] = NoIo
    /\ metadata_map_' = metadata_map_

\* no step of createFile, createDirectory or renameFile changes a record
\* that is in the namespace before and after it
NeverOverwritten(t) ==
    call'[t].op \in {"createFile", "createDirectory", "renameFile"}
        => \A p \in DOMAIN metadata_map_ \cap DOMAIN metadata_map_' :
              metadata_map_'[p] = metadata_map_[p]

\* C14 as stated: createFile(P), createDirectory(P) and renameFile(from, P)
\* on a path P that is in the namespace, as a file or a directory, return
\* -EEXIST and leave every record, P's too, unchanged; none of the three
\* ever overwrites an existing record.
C14_AlreadyExists ==
    [][\A t \in Threads :
          /\ OnExisting(t) => RefusedAsExisting(t)
          /\ NeverOverwritten(t)]_vars

\* C14, amended: the same, renameFile(from, P) returning -EEXIST when from is
\* in the namespace; when from is absent it returns -ENOENT, the namespace
\* unchanged as well.
C14_AlreadyExistsSourcePresent ==
    [][\A t \in Threads :
          /\ OnExisting(t) =>
                IF call'[t].op = "renameFile"
                      /\ call'[t].path \notin DOMAIN metadata_map_
                THEN /\ pc'[t] = "done"
                     /\ ret'[t] = 0 - ENOENT
                     /\ metadata_map_' = metadata_map_
                ELSE RefusedAsExisting(t)
          /\ NeverOverwritten(t)]_vars

\* renameFile(from, P) has returned -EEXIST, from a regular file and P a
\* directory
C14_Witness ==
    \E t \in Threads :
        /\ pc[t] = "done"
        /\ call[t].op = "renameFile"
        /\ ret[t] = 0 - EEXIST
        /\ call[t].path \in DOMAIN metadata_map_
        /\ call[t].to \in DOMAIN metadata_map_
        /\ BitAnd(metadata_map_[call[t].path].mode, S_IFMT) = S_IFREG
        /\ BitAnd(metadata_map_[call[t].to].mode, S_IFMT) = S_IFDIR

\* exactly one of the regular-file bit and the directory bit is set in mode
OneTypeBit(mode) == ((mode \div S_IFREG) % 2) + ((mode \div S_IFDIR) % 2) = 1

\* C15: the step in which createFile(P, m) returns 0 leaves at P the mode
\* S_IFREG | (m & 0777), nlink 1 and size 0; the step in which
\* createDirectory(P, m) returns 0 leaves S_IFDIR | (m & 0777), nlink 2 and
\* size 0; and in every reachable state every record's mode has exactly one
\* of the two file-type bits set.
C15_ModeWellFormed ==
    [][/\ \A t \in Threads :
             (/\ pc[t] = "idle"
              /\ pc'[t] = "done"
              /\ call'[t].op \in {"createFile", "createDirectory"}
              /\ ret'[t] = 0)
             => LET P == call'[t].path
                    file == call'[t].op = "createFile"
                IN  /\ P \in DOMAIN metadata_map_'
                    /\ metadata_map_'[P].mode =
                          (IF file THEN S_IFREG ELSE S_IFDIR) + (call'[t].mode % 512)
                    /\ metadata_map_'[P].nlink = IF file THEN 1 ELSE 2
                    /\ metadata_map_'[P].size = 0
       /\ \A p \in DOMAIN metadata_map_ : OneTypeBit(metadata_map_[p].mode)
       /\ \A p \in DOMAIN metadata_map_' : OneTypeBit(metadata_map_'[p].mode)]_vars

\* createFile has returned 0 for a mode that carries the directory bit and
\* bits above 0777, while a directory made with the regular-file bit in its
\* mode is in the namespace
C15_Witness ==
    \E t \in Threads :
        /\ pc[t] = "done"
        /\ call[t].op = "createFile"
        /\ ret[t] = 0
        /\ call[t].mode = 18925
        /\ \E p \in DOMAIN metadata_map_ : metadata_map_[p].mode = S_IFDIR + 511

\* thread t has just returned from deleteFile(P), the call it made right
\* after its createFile(P, m) returned 0
RoundTripDone(t) ==
    /\ pc[t] = "done"
    /\ call[t].op = "deleteFile"
    /\ prior.path # <<>>
    /\ prior.path = call[t].path

ListCalls(t) ==
    \/ \E p \in {PathA, PathDX, PathDSlashX} : createFile(t, p, 420)
    \/ createDirectory(t, PathD, 493)
    \/ removeDirectory(t, PathD)
    \/ \E p \in {Root, PathA, PathD, PathDSlash} : listDirectoryCall(t, p)

NextList == ListCalls(1) \/ Return(1)

SpecList == Init /\ [][NextList]_vars

\* the part of key after its first n characters, up to the next '/'
NameAfter(key, n) ==
    LET stops == {i \in (n + 1)..Len(key) : key[i] = "/"}
        end == IF stops = {} THEN Len(key)
               ELSE (CHOOSE i \in stops : \A j \in stops : i <= j) - 1
    IN  SubSeq(key, n + 1, end)

\* the names under prefix in the namespace m
NamesUnder(m, prefix) ==
    {NameAfter(key, Len(prefix)) :
        key \in {k \in DOMAIN m : /\ Len(k) > Len(prefix)
                                  /\ SubSeq(k, 1, Len(prefix)) = prefix}}

\* thread t has just returned from listDirectory
Listed(t) == pc[t] = "done" /\ call[t].op = "listDirectory"

\* the vector v has no element twice, and neither path nor the empty name
Proper(v, path) ==
    /\ \A i, j \in 1..Len(v) : i # j => v[i] # v[j]
    /\ \A i \in 1..Len(v) : v[i] # path /\ v[i] # <<>>

\* C17 as stated: listDirectory(P) returns, without duplicates, exactly the
\* first path components of the entries whose path starts with P plus a
\* '/', and never P itself or an empty name.
C17_ListDirectory ==
    \A t \in Threads :
        Listed(t) =>
            /\ Proper(call[t].entries, call[t].path)
            /\ {call[t].entries[i] : i \in 1..Len(call[t].entries)} =
                  NamesUnder(metadata_map_, call[t].path \o <<"/">>)

\* C17, amended: the prefix is P with a '/' appended unless P ends with
\* one, and the names are the non-empty first components after the prefix
\* of the entries that start with it and are longer.
C17_ListDirectoryPrefix ==
    \A t \in Threads :
        Listed(t) =>
            LET P == call[t].path
                prefix == IF P[Len(P)] = "/" THEN P ELSE P \o <<"/">>
            IN  /\ Proper(call[t].entries, P)
                /\ {call[t].entries[i] : i \in 1..Len(call[t].entries)} =
                      NamesUnder(metadata_map_, prefix) \ {<<>>}

\* "/" has been listed with /a, /d, /d/x and /d//x in the namespace: three
\* entries give the name d, listed once
C17_Witness ==
    \E t \in Threads :
        /\ Listed(t)
        /\ call[t].path = Root
        /\ {PathA, PathD, PathDX, PathDSlashX} \subseteq DOMAIN metadata_map_
        /\ Len(call[t].entries) = 2

(***************************************************************************)
(* Claims about chmodFile, truncateFile and the gap of a write, checked    *)
(* under Spec.                                                             *)
(***************************************************************************)
\* C18: the step in which chmodFile(P, m) returns 0 leaves the namespace
\* with getMetadata(P).mode = (old mode & S_IFMT) | (m & 07777), the type
\* bits unchanged; a second chmodFile(P, m) then leaves the mode as it is.
C18_ChmodTakesEffect ==
    [][\A t \in Threads :
          (/\ pc[t] = "idle"
           /\ pc'[t] = "done"
           /\ call'[t].op = "chmodFile"
           /\ ret'[t] = 0)
          => LET P == call'[t].path
                 old == metadata_map_[P].mode
             IN  /\ P \in DOMAIN metadata_map_'
                 /\ getMetadata(metadata_map_', P).mode =
                       (old - (old % 4096)) + (call'[t].mode % 4096)]_vars

\* C19: the step in which truncateFile(P, s) returns, P a regular file of
\* the namespace, written or not, and the drive having answered in time,
\* returns 0 and leaves getMetadata(P).size = s; so does a second
\* truncateFile(P, s).
C19_TruncateTakesEffect ==
    [][\A t \in Threads :
          (/\ pc[t] # "done"
           /\ pc'[t] = "done"
           /\ call'[t].op = "truncateFile"
           /\ call'[t].path \in DOMAIN metadata_map_
           /\ BitAnd(metadata_map_[call'[t].path].mode, S_IFMT) = S_IFREG)
          => /\ ret'[t] = 0
             /\ getMetadata(metadata_map_', call'[t].path).size = call'[t].size]_vars

\* thread t has just returned from a readFile of n > 0 bytes that lie in a
\* gap of P: inside what the writes that returned their count made of P,
\* at positions none of them wrote (the bytes written are never 0)
GapReadDone(t) ==
    /\ pc[t] = "done"
    /\ call[t].op = "readFile"
    /\ call[t].size > 0
    /\ call[t].path \in DOMAIN logical
    /\ call[t].path \in DOMAIN metadata_map_
    /\ call[t].offset + call[t].size <= Len(logical[call[t].path])
    /\ \A i \in 1..call[t].size : logical[call[t].path][call[t].offset + i] = 0

\* C20: when writeFile(P, b, s, o) with o beyond the size z of P has
\* returned s, a later readFile over a part of the gap [z, o) succeeds, with
\* the number of bytes asked for, and the buffer holds only zero bytes.
C20_GapZeroFill ==
    \A t \in Threads :
        GapReadDone(t) =>
            /\ ret[t] = call[t].size
            /\ \A i \in 1..call[t].size : buffer[t][i] = 0

(***************************************************************************)
(* SpecSnap: two clients of an accelerator with one drive.  Both look up   *)
(* /a and assign to the record they were given; the second also creates,   *)
(* renames, removes and chmods /a while time passes.                       *)
(***************************************************************************)
NextSnap ==
    \/ \E t \in {1, 2} : getMetadataCall(t, PathA)
    \/ \E t \in {1, 2} : ModifyReturned(t)
    \/ \E m \in FileModes : createFile(2, PathA, m)
    \/ createDirectory(2, PathA, 493)
    \/ removeDirectory(2, PathA)
    \/ \E p \in Files, q \in Files : renameFile(2, p, q)
    \/ chmodFile(2, PathA, 384)
    \/ \E t \in {1, 2} : Return(t)
    \/ Tick

SpecSnap == InitDrive /\ [][NextSnap]_vars

\* thread t holds, before and after the step, a record getMetadata returned
Holding(t) ==
    /\ pc[t] = "done"
    /\ call[t].op = "getMetadata"
    /\ pc'[t] = "done"

\* C21: getMetadata(P) returns the namespace's record of P as a copy: a step
\* that changes a returned record leaves the namespace, hence what a later
\* getMetadata(P) returns, unchanged, and a step that changes the namespace
\* leaves every record already returned unchanged.
C21_Snapshot ==
    [][\A t \in Threads :
          /\ Holding(t) =>
                /\ call'[t].meta # call[t].meta => metadata_map_' = metadata_map_
                /\ metadata_map_' # metadata_map_ => call'[t].meta = call[t].meta
          /\ (pc[t] = "idle" /\ pc'[t] = "done" /\ call'[t].op = "getMetadata")
                => /\ metadata_map_' = metadata_map_
                   /\ call'[t].meta =
                         IF call'[t].path \in DOMAIN metadata_map_
                         THEN metadata_map_[call'[t].path] ELSE NullMeta]_vars

\* thread 1 holds a record of /a it has modified, and thread 2 holds the
\* record a later getMetadata("/a") returned: the one of the namespace
C21_Witness ==
    /\ pc[1] = "done" /\ call[1].op = "getMetadata" /\ call[1].meta.size = 1
    /\ pc[2] = "done" /\ call[2].op = "getMetadata"
    /\ PathA \in DOMAIN metadata_map_
    /\ call[2].meta = metadata_map_[PathA]
    /\ call[2].meta.ctime > call[1].meta.ctime

(***************************************************************************)
(* SpecQueue: every thread is a client of the one drive and calls          *)
(* enqueueIO, with and without a completion handle, while the worker runs. *)
(***************************************************************************)
NextQueue ==
    \/ \E t \in Threads, handle \in BOOLEAN :
          \E type \in (IF t = 1 THEN {"TRUNCATE", "DELETE"} ELSE {"DELETE"}) :
             enqueueIO(t, 0, type, PathA, handle)
    \/ \E t \in Threads : EnqCheck(t)
    \/ \E t \in Threads : EnqPush(t)
    \/ \E t \in Threads : WaitReady(t)
    \/ \E t \in Threads : Return(t)
    \/ Worker

SpecQueue == InitDrive /\ [][NextQueue]_vars

\* C22: in every reachable state, whatever the number of threads inside
\* enqueueIO on a drive while its worker runs, the drive's queue holds at
\* most MAX_QUEUE_SIZE requests.
C22_QueueBound == \A d \in Drives : Len(io_queue_[d]) <= MAX_QUEUE_SIZE

(***************************************************************************)
(* SpecQueueFair: two clients of the drive, its worker scheduled fairly.   *)
(* The worker is a thread of its own (constructor, line 10) that enqueueIO *)
(* wakes with cv_.notify_one(); whenever it can pop or execute it          *)
(* eventually does.  Nothing is assumed about the clients.                 *)
(***************************************************************************)
NextServe ==
    \/ \E t \in {1, 2}, type \in {"TRUNCATE", "DELETE"}, handle \in BOOLEAN :
          enqueueIO(t, 0, type, PathA, handle)
    \/ \E t \in {1, 2} : EnqCheck(t)
    \/ \E t \in {1, 2} : EnqPush(t)
    \/ \E t \in {1, 2} : WaitReady(t)
    \/ \E t \in {1, 2} : Return(t)
    \/ Worker

SpecQueueFair == InitDrive /\ [][NextServe]_vars /\ WF_vars(Worker)

\* drive 0 holds the request whose completion handle is promise id
Accepted(id) == InDrive(io_queue_, cur, id)

\* the handle id has been given its result
Fulfilled(id) == id \in DOMAIN promise /\ promise[id].set

\* C23: with the worker scheduled fairly, every request accepted into the
\* queue is eventually popped and executed, the handle it carries is
\* eventually fulfilled with a signed result, and no handle is fulfilled
\* twice (a second set_value would terminate the process).
C23_Completion ==
    /\ \A id \in Threads : Accepted(id) ~> Fulfilled(id)
    /\ (io_queue_[0] # <<>>) ~> (cur[0] # NoReq)
    /\ (cur[0] # NoReq) ~> (cur[0] = NoReq)
    /\ [](fault # "terminate")
    /\ [](\A id \in DOMAIN promise : promise[id].value \in {0, 0 - ENOENT, 0 - EBUSY})

\* a caller is waiting on a handle that the worker has fulfilled with the
\* result of a TRUNCATE it executed
C23_Witness ==
    \E t \in Threads :
        /\ pc[t] = "wait"
        /\ io[t].req.type = "TRUNCATE"
        /\ ~Accepted(io[t].req.promise)
        /\ Fulfilled(io[t].req.promise)
        /\ promise[io[t].req.promise].value = 0 - ENOENT

(***************************************************************************)
(* SpecStop: the two clients of SpecQueueFair while the drive is being     *)
(* destroyed: ~SSD_Simulator sets stop_ and the worker leaves its loop.    *)
(***************************************************************************)
NextStop == NextServe \/ Stop(0) \/ Exit(0)

SpecStop == InitDrive /\ [][NextStop]_vars

\* C24: once stop_ is set no request is accepted any more and the worker
\* exits with an empty queue, so that every request submitted with a
\* completion handle has it fulfilled: after the worker has exited, the
\* queue holds no request whose handle is still unfulfilled.
C24_ShutdownDropsNoHandle ==
    \A d \in Drives :
        ~worker_thread_[d] =>
            \A i \in 1..Len(io_queue_[d]) :
                \/ io_queue_[d][i].promise = 0
                \/ Fulfilled(io_queue_[d][i].promise)

(***************************************************************************)
(* The order in which the worker serves the queue, under SpecQueue.        *)
(* Requests are told apart by their completion handles.                    *)
(***************************************************************************)
\* the request with handle id waits in the queue of drive 0
Queued(id) == \E i \in 1..Len(io_queue_[0]) : io_queue_[0][i].promise = id

\* the requests with handles a and b are both in the queue of drive 0, and
\* a was pushed first
Before(a, b) ==
    \E i, j \in 1..Len(io_queue_[0]) :
        /\ i < j
        /\ io_queue_[0][i].promise = a
        /\ io_queue_[0][j].promise = b

\* C25: when request r1 is accepted into a drive's queue before request r2,
\* the worker executes r1 and fulfills its handle before it executes r2:
\* r1 leaves the queue first, into the worker's hands, and r2 stays queued
\* until r1's handle is fulfilled.
C25_FIFO ==
    [][\A a \in Threads, b \in Threads :
          /\ Before(a, b) =>
                \/ Before(a, b)'
                \/ cur'[0].promise = a /\ Queued(b)'
          /\ cur[0].promise = a /\ Queued(b) =>
                \/ cur'[0].promise = a /\ Queued(b)'
                \/ Fulfilled(a)' /\ cur'[0] = NoReq /\ Queued(b)']_vars

\* r1 has been executed and its handle fulfilled while r2, accepted after
\* it, is still in the queue and a third request behind it
C25_Witness ==
    \E a \in Threads, b \in Threads, c \in Threads :
        /\ Before(b, c)
        /\ a # b /\ a # c
        /\ Fulfilled(a) /\ ~Accepted(a)
        /\ promise[a].value # 0 - EBUSY
        /\ ~Fulfilled(b)

(***************************************************************************)
(* The waits of the accelerator's operations, under Spec.                  *)
(***************************************************************************)
\* C26: every wait of an accelerator operation on a completion handle
\* (readFile, writeFile, deleteFile, truncateFile, and the READ, WRITE and
\* DELETE waits of renameFile) has a deadline at which the caller stops
\* waiting; no operation waits on a handle without one.
C26_WaitsBounded ==
    \A t \in Threads :
        pc[t] = "wait" /\ call[t].op \in {"readFile", "writeFile", "deleteFile",
                                          "truncateFile", "renameFile"}
            => io[t].timed

(***************************************************************************)
(* SpecFair: Spec with the drives' workers and the client scheduled        *)
(* fairly.  Each worker is a thread of its own, woken by cv_.notify_one()  *)
(* on every push; the client is a running thread that goes on with the     *)
(* call it is in whenever it can.                                          *)
(***************************************************************************)
SpecFair == Spec /\ WF_vars(Worker) /\ WF_vars(Timely(1))

\* the client is inside renameFile
InRename == call[1].op = "renameFile" /\ pc[1] \notin {"idle", "done"}

NextLoop ==
    \/ createFile(1, PathA, 420)
    \/ \E b \in WriteData : writeFile(1, PathA, b, 0)
    \/ \E o \in {0 - 1, 0} : readFile(1, PathA, 1, o)
    \/ Timely(1)
    \/ WaitTimeout(1)
    \/ Tick
    \/ Worker

SpecLoop == InitDrive /\ [][NextLoop]_vars /\ WF_vars(Worker) /\ WF_vars(Timely(1))

\* the client is inside readFile or writeFile
InBlocks == call[1].op \in {"readFile", "writeFile"} /\ pc[1] \notin {"idle", "done"}

\* the count of pending operations has reached the bound of the model
AtMaxPending == \E d \in Drives : pending_ops[d] >= MaxPending

\* C28: with the workers scheduled fairly every readFile and writeFile call
\* eventually returns; in particular a chunk that comes back with 0 bytes
\* ends the loop.  (Runs that reach MaxPending are left out.)
C28_BlockLoopTerminates == InBlocks ~> (pc[1] = "done" \/ AtMaxPending)

\* C29: when a chunk of readFile or writeFile fails after an earlier chunk
\* of the same call transferred bytes, the call returns the number of bytes
\* transferred so far, not the error.
C29_PartialResult ==
    \A t \in Threads :
        pc[t] = "done" /\ call[t].op \in {"readFile", "writeFile"} /\ call[t].total > 0
            => ret[t] = call[t].total

(***************************************************************************)
(* The chunks of a writeFile whose chunks all succeed, under Spec.         *)
(***************************************************************************)
\* the requests of thread t that a drive holds
InFlight(t) ==
    {<<d, i>> \in Drives \X (0..MaxPending) :
        \/ i = 0 /\ cur[d].owner = t
        \/ i > 0 /\ i <= Len(io_queue_[d]) /\ io_queue_[d][i].owner = t}

\* thread t goes from the loop test to enqueueIO with its next chunk
Submits(t) ==
    /\ call[t].op \in {"readFile", "writeFile"}
    /\ pc[t] = "chunk"
    /\ pc'[t] = "enq"

\* C30: a writeFile(P, b, s, o) whose chunks all succeed submits chunks of
\* at most BLOCK_SIZE bytes, each starting where the one before ended, from
\* o up to o + s, one in flight at a time, and returns s; the chunk at
\* absolute offset x goes to drive hash(P + ":" + decimal(x)) mod N whenever
\* that drive's pending-ops count is below MAX_PENDING_OPS, for readFile as
\* for writeFile.
C30_BlockRouting ==
    /\ [](\A t \in Threads :
            /\ Cardinality(InFlight(t)) <= 1
            /\ call[t].op = "writeFile" /\ pc[t] \in {"chunk", "fin"} =>
                  /\ InFlight(t) = {}
                  /\ call[t].total + call[t].remaining = call[t].size)
    /\ [][\A t \in Threads :
            LET c == call[t]
                x == c.offset + c.total
                primary == hash(c.path \o <<":">> \o to_string(x)) % num_drives_
                req == io'[t].req
            IN  /\ Submits(t) =>
                      /\ req.offset = x
                      /\ req.size > 0
                      /\ req.size = Min(c.remaining, BLOCK_SIZE)
                      /\ req.path = c.path
                      /\ req.type = IF c.op = "readFile" THEN "READ" ELSE "WRITE"
                      /\ c.op = "writeFile" =>
                            req.data = SubSeq(c.data, c.total + 1, c.total + req.size)
                      /\ pending_ops[primary] < MAX_PENDING_OPS =>
                            io'[t].drive = primary
                /\ c.op = "writeFile" /\ pc[t] = "wait" /\ pc'[t] \in {"chunk", "fin"} =>
                      call'[t].total = c.total + io[t].req.size
                /\ c.op = "writeFile" /\ pc[t] = "fin" /\ pc'[t] = "done" =>
                      /\ c.total = c.size
                      /\ ret'[t] = c.size]_vars

\* with two drives, a writeFile of three bytes at offset 1 has returned 3:
\* its chunks at 1 and 3 both went to drive 0, the drive of "/a:1" and
\* "/a:3", and nothing of /a is on drive 1, the drive of "/a"
C30_Witness ==
    /\ num_drives_ = 2
    /\ pc[1] = "done"
    /\ call[1].op = "writeFile"
    /\ call[1].offset = 1
    /\ ret[1] = 3
    /\ PathA \in DOMAIN storage_[0]
    /\ storage_[0][PathA] = <<0>> \o call[1].data
    /\ PathA \notin DOMAIN storage_[1]
    /\ getDriveIndex(PathA) = 1

(***************************************************************************)
(* SpecRead: one client of one drive writes, reads, truncates and deletes  *)
(* /a and /b through the SSD_Simulator interface and waits for every       *)
(* answer; reads start before, inside, at and behind the stored bytes.     *)
(***************************************************************************)
NextRead ==
    \/ \E p \in Files, o \in 0..MaxOffset : SSD_writeFile(1, 0, p, <<2, 1>>, o)
    \/ \E p \in Files, n \in ReadSizes, o \in {0 - 1, 0, 1, 3} :
          SSD_readFile(1, 0, p, n, o)
    \/ SSD_truncate(1, 0, PathA, 1)
    \/ \E p \in Files : enqueueIO(1, 0, "DELETE", p, TRUE)
    \/ EnqCheck(1)
    \/ EnqPush(1)
    \/ WaitReady(1)
    \/ Return(1)
    \/ Worker

SpecRead == InitDrive /\ [][NextRead]_vars

\* the worker of drive 0 executes the request it holds, of the given type
Executes(type) == cur[0] # NoReq /\ cur[0].type = type /\ cur'[0] = NoReq

\* what the step that executes a READ does, given the count it is to answer
\* when the path is stored: the count completes the handle, that many bytes
\* from the stored sequence at the offset are in the buffer, and the storage
\* is as before
ReadAnswers(count) ==
    LET req == cur[0]
        s == storage_[0]
        n == IF req.path \in DOMAIN s THEN count ELSE 0 - ENOENT
    IN  /\ storage_' = storage_
        /\ promise'[req.promise] = [set |-> TRUE, value |-> n]
        /\ n > 0 =>
              SubSeq(buffer'[req.owner], 1, n) =
                  SubSeq(s[req.path], req.offset + 1, req.offset + n)
        /\ \A i \in 1..req.size : i > n => buffer'[req.owner][i] = buffer[req.owner][i]

\* min(size, max(0, stored_len - offset))
SpecCount(req) ==
    Min(req.size, Max(0, Len(storage_[0][req.path]) - req.offset))

\* C31: executing READ(path, size, offset) completes with not-found if the
\* storage has no entry for path; otherwise it copies and completes with
\* exactly min(size, max(0, stored_len - offset)) bytes of the stored
\* sequence at offset, and leaves the storage unchanged.
C31_DriveRead ==
    [][Executes("READ") => ReadAnswers(SpecCount(cur[0]))]_vars

\* C31 for the offsets inside the address space of the stored sequence:
\* with offset >= 0 the count is min(size, max(0, stored_len - offset));
\* with a negative offset the READ of a stored path completes with 0.
C31_DriveReadFromZero ==
    [][Executes("READ") =>
          ReadAnswers(IF cur[0].offset >= 0 THEN SpecCount(cur[0]) ELSE 0)]_vars

\* a READ of 3 bytes at offset 1 of a stored sequence of 3 bytes has
\* completed with 2, the two bytes are in the buffer, the third is untouched
C31_Witness ==
    /\ pc[1] = "wait"
    /\ io[1].req.type = "READ"
    /\ io[1].req.size = 3
    /\ io[1].req.offset = 1
    /\ Fulfilled(io[1].req.promise)
    /\ promise[io[1].req.promise].value = 2
    /\ PathA \in DOMAIN storage_[0]
    /\ Len(storage_[0][PathA]) = 3
    /\ SubSeq(buffer[1], 1, 2) = SubSeq(storage_[0][PathA], 2, 3)
    /\ buffer[1][3] = Uninit

\* C32: executing DELETE(path) removes the entry for path from the drive's
\* storage, completes with 0 and leaves the entries of all other paths
\* unchanged.
C32_DriveDelete ==
    [][Executes("DELETE") =>
          /\ cur[0].path \notin DOMAIN storage_'[0]
          /\ promise'[cur[0].promise] = [set |-> TRUE, value |-> 0]
          /\ \A p \in DOMAIN storage_[0] \ {cur[0].path} :
                p \in DOMAIN storage_'[0] /\ storage_'[0][p] = storage_[0][p]]_vars

(***************************************************************************)
(* SpecDel: two clients create, delete and truncate the same path /a on an *)
(* accelerator with one drive; a wait may reach its deadline, and the      *)
(* request it abandons stays with the drive.                               *)
(***************************************************************************)
NextDel ==
    \/ \E t \in {1, 2} : createFile(t, PathA, 420)
    \/ \E t \in {1, 2} : createDirectory(t, PathA, 493)
    \/ \E t \in {1, 2} : deleteFile(t, PathA)
    \/ truncateFile(1, PathA, 1)
    \/ \E t \in {1, 2} : EnqCheck(t)
    \/ \E t \in {1, 2} : EnqPush(t)
    \/ \E t \in {1, 2} : WaitReady(t)
    \/ \E t \in {1, 2} : WaitTimeout(t)
    \/ \E t \in {1, 2} : Return(t)
    \/ Tick
    \/ Worker

SpecDel == InitDrive /\ [][NextDel]_vars

\* the wait of thread t on its drive request expires in this step
Expires(t) ==
    /\ pc[t] = "wait"
    /\ pc'[t] # "wait"
    /\ ~promise[io[t].req.promise].set

\* C33: when the wait of deleteFile(P) or truncateFile(P, s) expires, the
\* operation returns timed-out and the namespace is unchanged; the drive
\* executing the abandoned request later does not change it either.
C33_TimeoutKeepsMetadata ==
    [][/\ \A t \in Threads :
             Expires(t) /\ call[t].op \in {"deleteFile", "truncateFile"} =>
                /\ pc'[t] = "done"
                /\ ret'[t] = 0 - ETIMEDOUT
                /\ metadata_map_' = metadata_map_
       /\ cur' # cur => metadata_map_' = metadata_map_]_vars

\* the drive has executed the DELETE that a deleteFile abandoned at its
\* deadline: the call returned timed-out, and /a is still a file of the
\* namespace
C33_Witness ==
    /\ pc[1] = "done"
    /\ call[1].op = "deleteFile"
    /\ ret[1] = 0 - ETIMEDOUT
    /\ ~Accepted(io[1].req.promise)
    /\ io_queue_[0] = <<>>
    /\ exists(metadata_map_, PathA)
    /\ IsReg(getMetadata(metadata_map_, PathA))

\* thread t returns from the call op with rc in this step
Returns(t, op, rc) ==
    /\ pc[t] # "done"
    /\ pc'[t] = "done"
    /\ call'[t].op = op
    /\ ret'[t] = rc

\* thread t is between the check and the act of deleteFile
InDelete(t) == call[t].op = "deleteFile" /\ pc[t] \in {"enq", "push", "wait"}

C35_ResidualUnobservable ==
    \A t \in Threads :
        pc[t] = "done" /\ call[t].op = "readFile" /\ ret[t] >= 0 =>
            /\ \A i \in 1..ret[t] :
                  /\ call[t].path \in DOMAIN logical
                  /\ call[t].offset + i <= Len(logical[call[t].path])
                  /\ buffer[t][i] = logical[call[t].path][call[t].offset + i]
            /\ \A i \in (ret[t] + 1)..Len(buffer[t]) : buffer[t][i] = Uninit

\* a readFile of /a has returned while the drives still store bytes under
\* /a from before its deletion, and /a, created again, has not been written
C35_Witness ==
    /\ pc[1] = "done"
    /\ call[1].op = "readFile"
    /\ call[1].path = PathA
    /\ ret[1] = 0
    /\ PathA \in DOMAIN logical
    /\ logical[PathA] = <<>>
    /\ Residual(PathA)
    /\ \A i \in 1..Len(buffer[1]) : buffer[1][i] = Uninit

\* C36: pending_ops[d] counts the readFile/writeFile chunks in flight on d:
\* every startOperation is matched by a recordOperation on every way out of
\* the block loop, so that pending_ops[d] = 0 for every drive d whenever no
\* call is in progress.
C36_PendingBalanced ==
    (\A t \in Threads : pc[t] = "idle") => \A d \in Drives : pending_ops[d] = 0

\* thread t has just returned from a readFile of a sub-range of the range
\* its own writeFile, the call before, wrote in full
SubRangeReadDone(t) ==
    /\ pc[t] = "done"
    /\ call[t].op = "readFile"
    /\ last[t].op = "writeFile"
    /\ last[t].rc = last[t].size
    /\ call[t].path = last[t].path
    /\ call[t].size > 0
    /\ call[t].offset >= last[t].offset
    /\ call[t].offset + call[t].size <= last[t].offset + last[t].size
    /\ \A d \in Drives : pending_ops[d] < MAX_PENDING_OPS

\* C37: when the range [o, o+s) of P was written by successful writeFile
\* calls and no drive is over the load threshold, readFile(P, buf, s', o')
\* of any sub-range, whatever its start offset and length, returns s' and
\* the bytes last written there.
C37_ReadAnySubRange ==
    \A t \in Threads :
        SubRangeReadDone(t) =>
            /\ ret[t] = call[t].size
            /\ buffer[t] = SubSeq(logical[call[t].path], call[t].offset + 1,
                                  call[t].offset + call[t].size)

\* C38: deleteFile(P) returns 0 and removes P's record only if its DELETE
\* was accepted by the drive and completed by the worker with a result
\* >= 0; when enqueueIO rejects the request with busy, deleteFile returns
\* an error and P stays in the namespace.
C38_DeleteAfterDriveRan ==
    [][\A t \in {1, 2} :
          (/\ pc[t] = "wait"
           /\ call[t].op = "deleteFile"
           /\ Fulfilled(io[t].req.promise)
           /\ promise[io[t].req.promise].value < 0
           /\ pc'[t] = "done")
          => /\ ret'[t] < 0
             /\ metadata_map_' = metadata_map_]_vars

(***************************************************************************)
(* The shape of the namespace, under SpecDir.                              *)
(***************************************************************************)
\* the index of the last "/" of path
LastSlash(path) == CHOOSE i \in 1..Len(path) :
                      /\ path[i] = "/"
                      /\ \A j \in (i + 1)..Len(path) : path[j] # "/"

\* the path of the directory that holds path
ParentPath(path) ==
    IF LastSlash(path) = 1 THEN Root ELSE SubSeq(path, 1, LastSlash(path) - 1)

\* C39: in every reachable state every entry of the namespace other than
\* "/" has its parent path present in the namespace as a directory.
C39_ParentClosed ==
    \A p \in DOMAIN metadata_map_ \ {Root} :
        /\ exists(metadata_map_, ParentPath(p))
        /\ IsDir(getMetadata(metadata_map_, ParentPath(p)))

====
